---- MODULE Spec2Model ----
(***************************************************************************)
(* Command submission and GPU memory ownership of nvgpu_driver:            *)
(* Command (encoder), GpFifoQueue (ring), GpuAllocated (GPU buffer) and    *)
(* CommandStream, together with the kernel channel they talk to.           *)
(***************************************************************************)
EXTENDS Integers, Sequences, FiniteSets, TLC

(***************************************************************************)
(* Bounds of the model.                                                    *)
(***************************************************************************)
\* Capacity of the ring.  The source sets 0x800 (nvgpu/src/lib.rs:77); every
\* use of it in the code is a comparison with or an index below the
\* capacity, so the model runs the same code on a short ring.
GPFIFO_QUEUE_SIZE == 2

\* Number of command buffers that reach the ring.
MaxAllocs == 2

\* Number of batches the kernel accepts.
MaxSubmits == 2

(***************************************************************************)
(* Option<T>: None is the empty sequence, Some(x) a one-element sequence.  *)
(***************************************************************************)
None == <<>>

Some(x) == <<x>>

(***************************************************************************)
(* Machine words.  A u32 (u64) is its sequence of bits, bit i at index i,  *)
(* because a header sets bit 31 and an entry shifts by 42.                 *)
(***************************************************************************)
\* Bit i of the natural number n (n below 2^31).
Bit(n, i) == IF i >= 31 THEN 0 ELSE (n \div (2 ^ i)) % 2

\* n as u32.
U32(n) == [i \in 0..31 |-> Bit(n, i)]

RECURSIVE BitsValue(_, _, _)
\* The number held by bits lsb..msb of w.
BitsValue(w, msb, lsb) ==
    IF lsb > msb THEN 0 ELSE w[lsb] + 2 * BitsValue(w, msb, lsb + 1)

\* bitfield!: getter of the field msb..lsb.
BitRange(w, msb, lsb) == BitsValue(w, msb, lsb)

\* A setter that clears the rest of the word.
SetBitRange_clobbering(w, msb, lsb, value) ==
    [i \in DOMAIN w |-> IF i >= lsb /\ i <= msb THEN Bit(value, i - lsb) ELSE 0]

\* bitfield!: setter of the field msb..lsb; the value is cut to the field's
\* width and the other bits of the word are kept.
SetBitRange(w, msb, lsb, value) ==
    [i \in DOMAIN w |-> IF i >= lsb /\ i <= msb THEN Bit(value, i - lsb) ELSE w[i]]

\* GpFifoEntry accessors.
set_method(w, v) == SetBitRange(w, 12, 0, v)

set_sub_channel(w, v) == SetBitRange(w, 15, 13, v)

set_argument_count(w, v) == SetBitRange(w, 26, 16, v)

set_inline_arguments(w, v) == SetBitRange(w, 26, 16, v)

set_submission_mode(w, v) == SetBitRange(w, 31, 29, v)

method(w) == BitRange(w, 12, 0)

sub_channel(w) == BitRange(w, 15, 13)

argument_count(w) == BitRange(w, 26, 16)

inline_arguments(w) == BitRange(w, 26, 16)

submission_mode(w) == BitRange(w, 31, 29)

(***************************************************************************)
(* Command.                                                                *)
(***************************************************************************)
CommandSubmissionMode ==
    {"IncreasingOld", "Increasing", "NonIncreasingOld", "NonIncreasing",
     "Inline", "IncreasingOnce"}

SubChannelId == {"ThreeD", "Compute", "InlineToMemory", "TwoD", "DirectMemoryAccess"}

\* From<SubChannelId> for u32.
SubChannelU32(s) ==
    CASE s = "ThreeD" -> 0
      [] s = "Compute" -> 1
      [] s = "InlineToMemory" -> 2
      [] s = "TwoD" -> 3
      [] s = "DirectMemoryAccess" -> 4

\* The match with the tags of Inline and IncreasingOnce exchanged.
SubmissionModeId_swapped(m) ==
    CASE m = "IncreasingOld" -> 0
      [] m = "Increasing" -> 1
      [] m = "NonIncreasingOld" -> 2
      [] m = "NonIncreasing" -> 3
      [] m = "Inline" -> 5
      [] m = "IncreasingOnce" -> 4

\* The match of Command::new_raw.
SubmissionModeId(m) ==
    CASE m = "IncreasingOld" -> 0
      [] m = "Increasing" -> 1
      [] m = "NonIncreasingOld" -> 2
      [] m = "NonIncreasing" -> 3
      [] m = "Inline" -> 4
      [] m = "IncreasingOnce" -> 5

\* Command::new_raw
new_raw(meth, sub, mode) ==
    [entry |-> set_submission_mode(
                   set_sub_channel(set_method(U32(0), meth), sub),
                   SubmissionModeId(mode)),
     submission_mode |-> mode,
     arguments |-> <<>>]

\* Command::new
new(meth, sub, mode) == new_raw(meth, SubChannelU32(sub), mode)

\* Command::new_inline
new_inline(meth, sub, arguments) ==
    LET res == new_raw(meth, SubChannelU32(sub), "Inline")
    IN  [res EXCEPT !.entry = set_inline_arguments(res.entry, arguments)]

\* Command::push_argument, on a command that is not Inline (the assertion).
push_argument(c, argument) ==
    [c EXCEPT !.arguments = Append(c.arguments, argument)]

\* The assertion of push_argument taken out.
push_argument_unchecked(c) == FALSE

\* Command::push_argument: the assertion fails, and the call panics, on an
\* Inline command.
push_argument_panics(c) == c.submission_mode = "Inline"

\* A u64 as its 64 bits: the value with exactly the bits of S set.
U64Bits(S) == [i \in 0..63 |-> IF i \in S THEN 1 ELSE 0]

\* address >> 32
shr32(address) == [i \in 0..63 |-> IF i + 32 <= 63 THEN address[i + 32] ELSE 0]

\* value as u32: the low 32 bits.
as_u32(value) == [i \in 0..31 |-> value[i]]

\* push_address pushing the low half first.
push_address_low_first(c, address) ==
    push_argument(push_argument(c, as_u32(address)), as_u32(shr32(address)))

\* Command::push_address, on a command that is not Inline.
push_address(c, address) ==
    push_argument(push_argument(c, as_u32(shr32(address))), as_u32(address))

\* Four bytes read with the first byte as the most significant.
from_be_bytes(b) == [k \in 0..31 |-> Bit(b[4 - (k \div 8)], k % 8)]

\* u32::from_le_bytes
from_le_bytes(b) == [k \in 0..31 |-> Bit(b[(k \div 8) + 1], k % 8)]

\* The loop of push_inlined_buffer: the word pushed at index i (from 0).
InlinedWord(data, i) ==
    LET data_len == (Len(data) + 3) \div 4
        rest_len == Len(data) % 4
    IN  IF i = data_len - 1 /\ rest_len # 0
        THEN from_le_bytes([j \in 1..4 |->
                               IF j <= rest_len THEN data[i * 4 + j] ELSE 0])
        ELSE from_le_bytes([j \in 1..4 |-> data[i * 4 + j]])

\* The words push_inlined_buffer pushes, in order.
InlinedWords(data) ==
    [k \in 1..((Len(data) + 3) \div 4) |-> InlinedWord(data, k - 1)]

\* push_inlined_buffer calls push_argument, and so can panic, only when
\* there is a word to push.
push_inlined_buffer_panics(c, data) ==
    InlinedWords(data) # <<>> /\ push_argument_panics(c)

\* Command::push_inlined_buffer, when it does not panic.
push_inlined_buffer(c, data) ==
    [c EXCEPT !.arguments = c.arguments \o InlinedWords(data)]

\* Command::into_vec
into_vec(c) ==
    <<set_argument_count(c.entry, Len(c.arguments))>> \o c.arguments

(***************************************************************************)
(* State.                                                                  *)
(***************************************************************************)
VARIABLES
    command_list,   \* CommandStream.command_list: the pending commands
    fifo,           \* CommandStream.fifo: the GpFifoQueue (queue, waiting_fence, position)
    in_process,     \* CommandStream.in_process: ids of the GpuAllocated kept alive
    allocs,         \* every GpuAllocated constructed so far, by id
    submissions,    \* the batches the kernel channel accepted, by fence id
    completed,      \* fence ids of the batches the hardware finished, in order
    pc,             \* where the submitting thread is
    poll_fd,        \* the fence the thread is blocked on in poll()
    last,           \* the operation the thread called last and how it returned
    unwaited,       \* the submits since wait_idle was last called: the fence id of
                    \* an accepted batch, 0 for a run of refused ones
    cmd,            \* a Command under construction
    vec,            \* what into_vec returned for it
    handles,        \* nvmap's table of memory handles, by raw handle
    threads,        \* the threads sharing a GpuAllocated: who holds the mutex of
                    \* its handle, and where each thread is in its call
    instances       \* NVHOST_CTRL_INSTANCE, NVMAP_INSTANCE, NVAS_INSTANCE: the
                    \* process-wide pointers, None for null

vars == <<command_list, fifo, in_process, allocs, submissions, completed, pc, poll_fd,
          last, unwaited, cmd, vec, handles, threads, instances>>

\* The process-wide pointers after initialize() returned Ok: the first
\* control handle, the first memory manager, and the first address space,
\* allocated through that control handle.
Initialized ==
    [NVHOST_CTRL_INSTANCE |-> <<1>>, NVMAP_INSTANCE |-> <<1>>,
     NVAS_INSTANCE |-> <<[id |-> 1, ctrl |-> 1]>>]

\* The variables of the command encoder.
encoder == <<cmd, vec>>

(***************************************************************************)
(* GpuAllocated.                                                           *)
(***************************************************************************)
PAGE_SIZE == 4096

\* The alignment CommandStream::flush asks for.
FLUSH_ALIGN == 131072

\* size_of::<u32>()
WORD_BYTES == 4

\* (user_size + (PAGE_SIZE - 1)) & !(PAGE_SIZE - 1)
PageRound(user_size) == ((user_size + (PAGE_SIZE - 1)) \div PAGE_SIZE) * PAGE_SIZE

\* AddressSpace::map_buffer: the address the kernel gives the n-th mapping.
MappedAddress(n) == n * PAGE_SIZE

\* GpuAllocated::new followed by from_raw, all kernel steps succeeding: the
\* allocation with id n.  host is what the CPU sees through the mapping, mem what
\* the device sees; cached tells that the CPU cache holds lines of the buffer
\* (without them the CPU sees the memory); gpu_mapped is cleared by Drop's
\* unmap_buffer.
GpuAllocated_new(n, user_size, align) ==
    [handle |-> [size |-> PageRound(user_size), raw_handle |-> n,
                 mapped_address |-> None],
     gpu_address |-> MappedAddress(n),
     user_size |-> user_size,
     host |-> [i \in 1..(user_size \div WORD_BYTES) |-> U32(0)],
     mem |-> [i \in 1..(user_size \div WORD_BYTES) |-> U32(0)],
     cached |-> FALSE,
     gpu_mapped |-> TRUE]

\* NvMap::map, the mmap succeeding: idempotent on a mapped handle.
nvmap_map(a) ==
    IF a.handle.mapped_address # None THEN a
    ELSE [a EXCEPT !.handle.mapped_address = Some(a.gpu_address)]

\* A map that calls mmap whatever the handle holds.
map_always_calls_mmap(a) == TRUE

\* NvMap::map calls mmap only when the handle holds no address.
map_calls_mmap(a) == a.handle.mapped_address = None

\* NvMap::map, the mmap returning address.
nvmap_map_at(a, address) ==
    IF map_calls_mmap(a)
    THEN [a EXCEPT !.handle.mapped_address = Some(address)]
    ELSE a

\* NvMap::unmap calls munmap only when the handle holds an address.
unmap_calls_munmap(a) == a.handle.mapped_address # None

\* GpuAllocated::invalidate, the ioctl succeeding: the host view is read
\* again from memory, when the handle is mapped.
GpuAllocated_invalidate(a) ==
    IF a.handle.mapped_address = None THEN a
    ELSE [a EXCEPT !.host = a.mem, !.cached = FALSE]

\* NvMap::cache_maintenance reaches its ioctl only on a mapped handle.
cache_calls_ioctl(a) == a.handle.mapped_address # None

(***************************************************************************)
(* The memory manager: what the kernel holds for each handle it created.   *)
(* fd: the handle has a file descriptor; mmaps: the live mappings of it in *)
(* the process; frees: the calls of NVMAP_IOC_FREE for it.                 *)
(***************************************************************************)
\* NVMAP_IOC_CREATE succeeding, then NVMAP_IOC_GET_FD succeeding (fd) or not.
KernelCreate(hs, size, fd) ==
    Append(hs, [size |-> size, fd |-> fd, allocated |-> FALSE, align |-> 0,
                mmaps |-> 0, frees |-> 0])

\* NVMAP_IOC_ALLOC succeeding.
KernelAllocate(hs, h, align) ==
    [hs EXCEPT ![h].allocated = TRUE, ![h].align = align]

\* mmap of the handle's file descriptor succeeding.
KernelMmap(hs, h) == [hs EXCEPT ![h].mmaps = @ + 1]

\* munmap succeeding.
KernelMunmap(hs, h) == [hs EXCEPT ![h].mmaps = @ - 1]

\* The handle is live: created and never freed.
Live(hs, h) == hs[h].frees = 0

\* NvMap::unmap, the munmap succeeding.
nvmap_unmap(a) == [a EXCEPT !.handle.mapped_address = None]

\* copy_from_slice through the slice map_array_mut returned.
copy_from_slice(a, words) == [a EXCEPT !.host = words, !.cached = TRUE]

\* A store of value to word i through the reference map_mut returned.
host_write(a, i, value) == [a EXCEPT !.host[i] = value, !.cached = TRUE]

\* A load of word i through the reference map returned: the line stays in
\* the cache.
host_read(a, i) == [a EXCEPT !.cached = TRUE]

\* The device stores value to word i of the buffer: the CPU sees it unless
\* its cache holds the line.
device_write(a, i, value) ==
    [a EXCEPT !.mem[i] = value,
              !.host[i] = IF a.cached THEN @ ELSE value]

\* GpuAllocated::flush, the ioctl succeeding: NvMap::cache_maintenance writes
\* the host view back only when the handle is mapped.
GpuAllocated_flush(a) ==
    IF a.handle.mapped_address = None THEN a
    ELSE [a EXCEPT !.mem = a.host, !.cached = FALSE]

DropOutcomes == {"ok", "unmap_failed", "unmap_buffer_failed"}

\* A drop that unmaps the GPU range before the host view.
GpuAllocated_drop_gpu_first(a, outcome) ==
    CASE outcome = "ok" -> [nvmap_unmap(a) EXCEPT !.gpu_mapped = FALSE]
      [] outcome = "unmap_failed" -> [a EXCEPT !.gpu_mapped = FALSE]
      [] outcome = "unmap_buffer_failed" -> a

\* Drop for GpuAllocated: unmap the host view, then unmap the GPU range; each
\* step panics when it fails.
GpuAllocated_drop(a, outcome) ==
    CASE outcome = "ok" -> [nvmap_unmap(a) EXCEPT !.gpu_mapped = FALSE]
      [] outcome = "unmap_failed" -> a
      [] outcome = "unmap_buffer_failed" -> nvmap_unmap(a)

\* A host unmap can only fail when there is a mapping to remove.
DropPossible(a, outcome) ==
    outcome = "unmap_failed" => a.handle.mapped_address # None

(***************************************************************************)
(* The kernel channel and the hardware behind it.                          *)
(***************************************************************************)
\* RawFence.id of "no fence": unwrap_or_else in submit_gpfifo.
NO_FENCE_ID == -1

FLAG_FENCE_WAIT == 1

FLAG_FENCE_GET == 2

FLAG_SYNC_FENCE == 8

\* flags & bit != 0, for bit a power of two.
HasFlag(flags, bit) == (flags \div bit) % 2 = 1

\* flags | bit
OrFlag(flags, bit) == IF HasFlag(flags, bit) THEN flags ELSE flags + bit

\* NVGPU_IOCTL_CHANNEL_SUBMIT_GPFIFO succeeding: the kernel queues the batch
\* behind param.fence when FENCE_WAIT is set; the fence it returns is
\* identified by the batch's place in the channel's history.
KernelSubmit(subs, entries, fence_id, flags) ==
    Append(subs, [entries |-> entries, fence |-> fence_id, flags |-> flags,
                  done |-> FALSE])

\* Channel::submit_gpfifo.  ok: whether the ioctl succeeds.
submit_gpfifo(subs, entries, input_fence, flags, ok) ==
    LET fence_id == IF input_fence = None THEN NO_FENCE_ID ELSE input_fence[1]
    IN  IF ok
        THEN [ok |-> TRUE,
              value |-> IF HasFlag(flags, FLAG_FENCE_GET)
                        THEN Some(Len(subs) + 1) ELSE None,
              submissions |-> KernelSubmit(subs, entries, fence_id, flags)]
        ELSE [ok |-> FALSE, value |-> None, submissions |-> subs]

\* The fence of batch k is signalled once the hardware finished the batch.
Signalled(subs, k) == k \in 1..Len(subs) /\ subs[k].done

\* The batch waits for a fence the kernel was told to wait for.
MustWaitFor(s) == HasFlag(s.flags, FLAG_FENCE_WAIT)

\* The hardware may start (and so finish) batch k.
CanRun(subs, k) == MustWaitFor(subs[k]) => Signalled(subs, subs[k].fence)

(***************************************************************************)
(* GpFifoQueue.                                                            *)
(***************************************************************************)
\* A GpFifoRawOffset: 64 bits.
ZeroEntry == [i \in 0..63 |-> 0]

\* w << n on a u64: the bits moved past bit 63 are dropped.
shl(w, n) == [i \in 0..63 |-> IF i >= n THEN w[i - n] ELSE 0]

\* a | b on u64.
BitOr(a, b) == [i \in 0..63 |-> IF a[i] = 1 \/ b[i] = 1 THEN 1 ELSE 0]

\* An entry with the count ten bits lower.
GpFifoRawOffset_shift32(gpu_address, command_count) ==
    BitOr(gpu_address, shl(command_count, 32))

\* gpu_address | (command_count << 42), both u64.
GpFifoRawOffset(gpu_address, command_count) ==
    BitOr(gpu_address, shl(command_count, 42))

\* gpu_address | (command_count << 42), for numbers below 2^31.
RawOffset(gpu_address, command_count) ==
    GpFifoRawOffset([i \in 0..63 |-> Bit(gpu_address, i)],
                    [i \in 0..63 |-> Bit(command_count, i)])

\* The address and the word count the hardware reads from an entry.
EntryAddress(e) == BitsValue(e, 41, 0)

EntryCount(e) == BitsValue(e, 63, 42)

\* GpFifoQueue::new
GpFifoQueue_new ==
    [queue |-> [i \in 0..(GPFIFO_QUEUE_SIZE - 1) |-> ZeroEntry],
     waiting_fence |-> None,
     position |-> 0]

\* AppendPanics with the comparison off by one.
AppendPanics_off_by_one(f) == f.position > GPFIFO_QUEUE_SIZE

\* GpFifoQueue::append panics instead of writing.
AppendPanics(f) == f.position >= GPFIFO_QUEUE_SIZE

\* GpFifoQueue::append storing the entry e, when it does not panic.
append_entry(f, e) ==
    [f EXCEPT !.queue[f.position] = e, !.position = f.position + 1]

\* GpFifoQueue::append, when it does not panic.
append(f, gpu_address, command_count) ==
    append_entry(f, RawOffset(gpu_address, command_count))

\* A submit that hands the whole ring to the kernel.
QueueSlice_whole(f) == [i \in 1..GPFIFO_QUEUE_SIZE |-> f.queue[i - 1]]

\* &self.queue[..self.position]
QueueSlice(f) == [i \in 1..f.position |-> f.queue[i - 1]]

\* submit that never hands the stored fence to the kernel.
submit_without_wait(f, subs, ok) ==
    LET r == submit_gpfifo(subs, QueueSlice(f), None,
                           OrFlag(FLAG_FENCE_GET, FLAG_SYNC_FENCE), ok)
    IN  IF r.ok
        THEN [ok |-> TRUE,
              fifo |-> [f EXCEPT !.waiting_fence = r.value, !.position = 0],
              submissions |-> r.submissions]
        ELSE [ok |-> FALSE,
              fifo |-> [f EXCEPT !.waiting_fence = None],
              submissions |-> r.submissions]

\* submit that puts the fence it waited for back instead of the new one.
submit_keeps_fence(f, subs, ok) ==
    LET taken == f.waiting_fence
        flags == IF taken # None
                 THEN OrFlag(OrFlag(FLAG_FENCE_GET, FLAG_SYNC_FENCE), FLAG_FENCE_WAIT)
                 ELSE OrFlag(FLAG_FENCE_GET, FLAG_SYNC_FENCE)
        r == submit_gpfifo(subs, QueueSlice(f), taken, flags, ok)
    IN  IF r.ok
        THEN [ok |-> TRUE,
              fifo |-> [f EXCEPT !.waiting_fence = IF taken # None THEN taken ELSE r.value,
                                 !.position = 0],
              submissions |-> r.submissions]
        ELSE [ok |-> FALSE,
              fifo |-> [f EXCEPT !.waiting_fence = None],
              submissions |-> r.submissions]

\* GpFifoQueue::submit.  ok: whether the kernel accepts the batch.
submit(f, subs, ok) ==
    LET taken == f.waiting_fence
        flags == IF taken # None
                 THEN OrFlag(OrFlag(FLAG_FENCE_GET, FLAG_SYNC_FENCE), FLAG_FENCE_WAIT)
                 ELSE OrFlag(FLAG_FENCE_GET, FLAG_SYNC_FENCE)
        r == submit_gpfifo(subs, QueueSlice(f), taken, flags, ok)
    IN  IF r.ok
        THEN [ok |-> TRUE,
              fifo |-> [f EXCEPT !.waiting_fence = r.value, !.position = 0],
              submissions |-> r.submissions]
        ELSE [ok |-> FALSE,
              fifo |-> [f EXCEPT !.waiting_fence = None],
              submissions |-> r.submissions]

\* wait_idle that reads the fence and leaves it in the slot.
wait_idle_peek(f) == f

\* GpFifoQueue::wait_idle up to poll(): the fence is taken out of the slot.
wait_idle_take(f) == [f EXCEPT !.waiting_fence = None]

(***************************************************************************)
(* CommandStream.                                                          *)
(***************************************************************************)
\* The commands the application pushes, in any order and each pending at
\* most once: the Inline command of memcpy_1d and its first Increasing
\* command, with two arguments.
PushableCommands ==
    {new_inline(263, "DirectMemoryAccess", 1),
     push_argument(push_argument(new(453, "DirectMemoryAccess", "Increasing"),
                                 U32(7)), U32(1))}

\* last.waited: what unwaited was when wait_idle was called.
Returned(op, result) == [op |-> op, result |-> result, waited |-> <<>>]

\* unwaited after a submit.
Submitted(r) ==
    IF r.ok THEN Append(unwaited, Len(r.submissions))
    ELSE IF unwaited # <<>> /\ unwaited[Len(unwaited)] = 0 THEN unwaited
    ELSE Append(unwaited, 0)

RECURSIVE FlushWords_reversed(_)
\* The loop of flush prepending each command's words instead of appending.
FlushWords_reversed(cmds) ==
    IF cmds = <<>> THEN <<>>
    ELSE FlushWords_reversed(Tail(cmds)) \o into_vec(Head(cmds))

RECURSIVE FlushWords(_)
\* The loop of CommandStream::flush: the words of the drained commands.
FlushWords(cmds) ==
    IF cmds = <<>> THEN <<>> ELSE into_vec(Head(cmds)) \o FlushWords(Tail(cmds))

\* A flush that unmaps the buffer without writing its cache back.
FlushBuffer_unflushed(n, commands, stage) ==
    LET created == GpuAllocated_new(n, Len(commands) * WORD_BYTES, FLUSH_ALIGN)
        written == copy_from_slice(nvmap_map(created), commands)
    IN  CASE stage = "map" -> created
          [] stage = "cache" -> written
          [] OTHER -> nvmap_unmap(written)

\* CommandStream::flush up to the point `stage`: the buffer as the stage
\* that fails (or the append) finds it.
FlushBuffer(n, commands, stage) ==
    LET created == GpuAllocated_new(n, Len(commands) * WORD_BYTES, FLUSH_ALIGN)
        mapped == nvmap_map(created)
        written == copy_from_slice(mapped, commands)
        flushed == GpuAllocated_flush(written)
    IN  CASE stage = "map" -> created
          [] stage = "cache" -> written
          [] stage = "unmap" -> flushed
          [] OTHER -> nvmap_unmap(flushed)

\* The kernel steps of GpuAllocated::new.
NewSteps == {"create", "allocate", "map_buffer"}

\* The kernel steps of flush between the allocation and the append.
FillSteps == {"map", "cache", "unmap"}

\* self.fifo.append(gpu_address, user_size / 4, 0)
FlushAppend(f, a) == append(f, a.gpu_address, a.user_size \div WORD_BYTES)

\* CommandStream::new
Init ==
    /\ command_list = <<>>
    /\ fifo = GpFifoQueue_new
    /\ in_process = <<>>
    /\ allocs = <<>>
    /\ submissions = <<>>
    /\ completed = <<>>
    /\ pc = "ready"
    /\ poll_fd = None
    /\ last = Returned("new", "Ok")
    /\ unwaited = <<>>
    /\ cmd = None
    /\ vec = None
    /\ handles = <<>>
    /\ threads = <<>>
    /\ instances = Initialized

\* A push that puts the command in front of the pending ones.
Push_prepends(c) ==
    /\ pc = "ready"
    /\ \A i \in 1..Len(command_list) : command_list[i] # c
    /\ command_list' = <<c>> \o command_list
    /\ last' = Returned("push", "Ok")
    /\ UNCHANGED <<fifo, in_process, allocs, submissions, completed, pc, poll_fd, unwaited>>
    /\ UNCHANGED <<encoder, handles, threads, instances>>

\* CommandStream::push
Push(c) ==
    /\ pc = "ready"
    /\ \A i \in 1..Len(command_list) : command_list[i] # c
    /\ command_list' = Append(command_list, c)
    /\ last' = Returned("push", "Ok")
    /\ UNCHANGED <<fifo, in_process, allocs, submissions, completed, pc, poll_fd, unwaited>>
    /\ UNCHANGED <<encoder, handles, threads, instances>>

\* A flush that fails inside GpuAllocated::new with the commands still pending.
FlushNewFails_keeps(stage) ==
    /\ pc = "ready"
    /\ stage \in NewSteps
    /\ command_list # <<>>
    /\ last' = Returned("flush", "Err")
    /\ UNCHANGED <<command_list, fifo, in_process, allocs, submissions, completed, pc,
                   poll_fd, unwaited>>
    /\ UNCHANGED <<encoder, handles, threads, instances>>

\* CommandStream::flush failing inside GpuAllocated::new: the `?` returns.
FlushNewFails(stage) ==
    /\ pc = "ready"
    /\ stage \in NewSteps
    /\ command_list' = <<>>
    /\ last' = Returned("flush", "Err")
    /\ UNCHANGED <<fifo, in_process, allocs, submissions, completed, pc, poll_fd, unwaited>>
    /\ UNCHANGED <<encoder, handles, threads, instances>>

\* CommandStream::flush failing at map_array_mut, flush or unmap: the `?`
\* returns and commands_gpu, a local the kernel never saw, is dropped; the
\* drop panics when one of its unmaps fails.
FlushFillFails(stage, outcome) ==
    /\ pc = "ready"
    /\ stage \in FillSteps
    /\ DropPossible(FlushBuffer(Len(allocs) + 1, FlushWords(command_list), stage), outcome)
    /\ command_list' = <<>>
    /\ pc' = IF outcome = "ok" THEN "ready" ELSE "panicked"
    /\ last' = Returned("flush", IF outcome = "ok" THEN "Err" ELSE "panic")
    /\ UNCHANGED <<fifo, in_process, allocs, submissions, completed, poll_fd, unwaited>>
    /\ UNCHANGED <<encoder, handles, threads, instances>>

\* CommandStream::flush panicking in append: unwinding drops commands_gpu,
\* and a panic of that drop aborts the process.
FlushAppendPanics(outcome) ==
    /\ pc = "ready"
    /\ AppendPanics(fifo)
    /\ DropPossible(FlushBuffer(Len(allocs) + 1, FlushWords(command_list), "append"), outcome)
    /\ command_list' = <<>>
    /\ pc' = IF outcome = "ok" THEN "panicked" ELSE "aborted"
    /\ last' = Returned("flush", "panic")
    /\ UNCHANGED <<fifo, in_process, allocs, submissions, completed, poll_fd, unwaited>>
    /\ UNCHANGED <<encoder, handles, threads, instances>>

\* CommandStream::flush reaching submit.  ok: whether the kernel accepts.
FlushReachesSubmit(ok) ==
    /\ pc = "ready"
    /\ ~AppendPanics(fifo)
    /\ LET a == FlushBuffer(Len(allocs) + 1, FlushWords(command_list), "append")
           r == submit(FlushAppend(fifo, a), submissions, ok)
       IN  /\ allocs' = Append(allocs, a)
           /\ in_process' = Append(in_process, Len(allocs) + 1)
           /\ fifo' = r.fifo
           /\ submissions' = r.submissions
           /\ last' = Returned("flush", IF r.ok THEN "Ok" ELSE "Err")
           /\ unwaited' = Submitted(r)
    /\ command_list' = <<>>
    /\ UNCHANGED <<completed, pc, poll_fd>>
    /\ UNCHANGED <<encoder, handles, threads, instances>>

\* CommandStream::flush reaching submit, within the bounds on the buffers
\* and the batches.
FlushSubmits(ok) ==
    /\ Len(allocs) < MaxAllocs
    /\ ok => Len(submissions) < MaxSubmits
    /\ FlushReachesSubmit(ok)

\* CommandStream::flush
Flush ==
    \/ \E ok \in BOOLEAN : FlushSubmits(ok)
    \/ \E outcome \in DropOutcomes : FlushAppendPanics(outcome)
    \/ \E stage \in FillSteps, outcome \in DropOutcomes : FlushFillFails(stage, outcome)
    \/ \E stage \in NewSteps : FlushNewFails(stage)

\* poll that returns whether the fence is signalled or not.
poll_ready_at_once(subs, fd) == TRUE

\* poll(fd, -1) returns without an error only once the fence is signalled.
poll_ready(subs, fd) == Signalled(subs, fd[1])

\* A wait_idle that releases the in-flight buffers once nothing is awaited.
WaitIdleNoFence_releases ==
    /\ pc = "ready"
    /\ fifo.waiting_fence = None
    /\ last' = [Returned("wait_idle", "Ok") EXCEPT !.waited = unwaited]
    /\ unwaited' = <<>>
    /\ in_process' = <<>>
    /\ UNCHANGED <<command_list, fifo, allocs, submissions, completed, pc, poll_fd>>
    /\ UNCHANGED <<encoder, handles, threads, instances>>

\* wait_idle with no fence in the slot: returns at once.
WaitIdleNoFence ==
    /\ pc = "ready"
    /\ fifo.waiting_fence = None
    /\ last' = [Returned("wait_idle", "Ok") EXCEPT !.waited = unwaited]
    /\ unwaited' = <<>>
    /\ UNCHANGED <<command_list, fifo, in_process, allocs, submissions, completed,
                   pc, poll_fd>>
    /\ UNCHANGED <<encoder, handles, threads, instances>>

\* wait_idle with a fence: takes it and blocks in poll.
WaitIdlePoll ==
    /\ pc = "ready"
    /\ fifo.waiting_fence # None
    /\ poll_fd' = fifo.waiting_fence
    /\ fifo' = wait_idle_take(fifo)
    /\ pc' = "wait_idle"
    /\ last' = [Returned("wait_idle", "blocked") EXCEPT !.waited = unwaited]
    /\ unwaited' = <<>>
    /\ UNCHANGED <<command_list, in_process, allocs, submissions, completed>>
    /\ UNCHANGED <<encoder, handles, threads, instances>>

\* poll returns: the fence is signalled.
WaitIdleReturns ==
    /\ pc = "wait_idle"
    /\ poll_ready(submissions, poll_fd)
    /\ pc' = "ready"
    /\ poll_fd' = None
    /\ last' = [last EXCEPT !.result = "Ok"]
    /\ UNCHANGED <<command_list, fifo, in_process, allocs, submissions, completed,
                   unwaited>>
    /\ UNCHANGED <<encoder, handles, threads, instances>>

\* poll fails: CommandStream::wait_idle unwraps the error.
WaitIdlePanics ==
    /\ pc = "wait_idle"
    /\ pc' = "panicked"
    /\ poll_fd' = None
    /\ last' = [last EXCEPT !.result = "panic"]
    /\ UNCHANGED <<command_list, fifo, in_process, allocs, submissions, completed,
                   unwaited>>
    /\ UNCHANGED <<encoder, handles, threads, instances>>

\* The hardware finishes batch k: it has consumed the batch's entries.
GpuComplete(k) ==
    /\ k \in 1..Len(submissions)
    /\ ~submissions[k].done
    /\ CanRun(submissions, k)
    /\ submissions' = [submissions EXCEPT ![k].done = TRUE, ![k].entries = <<>>]
    /\ completed' = Append(completed, k)
    /\ UNCHANGED <<command_list, fifo, in_process, allocs, pc, poll_fd, last, unwaited>>
    /\ UNCHANGED <<encoder, handles, threads, instances>>

RECURSIVE DropVec(_, _, _, _)
\* Drop of Vec<GpuAllocated>: the buffers are dropped in order, outs[i] being
\* the outcome of the i-th drop.  After a first panic the remaining elements
\* are still dropped while unwinding; a second panic aborts the process.
DropVec(al, ids, outs, unwinding) ==
    IF ids = <<>> THEN [allocs |-> al, aborted |-> FALSE]
    ELSE LET id == Head(ids)
             dropped == [al EXCEPT ![id] = GpuAllocated_drop(al[id], Head(outs))]
         IN  IF Head(outs) = "ok"
             THEN DropVec(dropped, Tail(ids), Tail(outs), unwinding)
             ELSE IF unwinding
                  THEN [allocs |-> dropped, aborted |-> TRUE]
                  ELSE DropVec(dropped, Tail(ids), Tail(outs), TRUE)

\* ManuallyDrop::drop(&mut self.in_process), after which the remaining fields
\* of the stream are gone with it.
DropInProcess(unwinding) ==
    \E outs \in [1..Len(in_process) -> DropOutcomes] :
        /\ \A i \in 1..Len(in_process) : DropPossible(allocs[in_process[i]], outs[i])
        /\ LET r == DropVec(allocs, in_process, outs, unwinding)
           IN  /\ allocs' = r.allocs
               /\ pc' = IF r.aborted THEN "aborted" ELSE "gone"
        /\ in_process' = <<>>
        /\ command_list' = <<>>
        /\ unwaited' = <<>>

\* Drop for CommandStream, no fence in the slot: GpFifoQueue's drop returns
\* from wait_idle at once and the in-flight buffers are dropped.  The stream
\* is dropped by its owner, or by the unwinding of a panic.
DropNoFence ==
    /\ pc \in {"ready", "panicked"}
    /\ fifo.waiting_fence = None
    /\ DropInProcess(pc = "panicked")
    /\ last' = Returned("drop", "Ok")
    /\ UNCHANGED <<fifo, submissions, completed, poll_fd>>
    /\ UNCHANGED <<encoder, handles, threads, instances>>

\* A teardown that drops the in-flight buffers before the ring.
DropPoll_buffers_first ==
    /\ pc \in {"ready", "panicked"}
    /\ fifo.waiting_fence # None
    /\ DropInProcess(pc = "panicked")
    /\ poll_fd' = fifo.waiting_fence
    /\ fifo' = wait_idle_take(fifo)
    /\ last' = Returned("drop", "blocked")
    /\ UNCHANGED <<submissions, completed>>
    /\ UNCHANGED <<encoder, handles, threads, instances>>

\* Drop for CommandStream with a fence: GpFifoQueue's drop blocks in poll.
DropPoll ==
    /\ pc \in {"ready", "panicked"}
    /\ fifo.waiting_fence # None
    /\ poll_fd' = fifo.waiting_fence
    /\ fifo' = wait_idle_take(fifo)
    /\ pc' = IF pc = "panicked" THEN "drop_unwind" ELSE "drop"
    /\ last' = Returned("drop", "blocked")
    /\ UNCHANGED <<command_list, in_process, allocs, submissions, completed, unwaited>>
    /\ UNCHANGED <<encoder, handles, threads, instances>>

\* poll returns in GpFifoQueue's drop, the fence signalled (polled) or with an
\* error the drop ignores (`let _ =`); the in-flight buffers are dropped next.
DropPolled(polled) ==
    /\ pc \in {"drop", "drop_unwind"}
    /\ polled => poll_ready(submissions, poll_fd)
    /\ DropInProcess(pc = "drop_unwind")
    /\ poll_fd' = None
    /\ last' = [last EXCEPT !.result = IF polled THEN "Ok" ELSE "ignored"]
    /\ UNCHANGED <<fifo, submissions, completed>>
    /\ UNCHANGED <<encoder, handles, threads, instances>>

\* Drop for CommandStream
Drop ==
    \/ DropNoFence
    \/ DropPoll
    \/ \E polled \in BOOLEAN : DropPolled(polled)

\* CommandStream::wait_idle
WaitIdle ==
    \/ WaitIdleNoFence
    \/ WaitIdlePoll
    \/ WaitIdleReturns
    \/ WaitIdlePanics

Next ==
    \/ \E c \in PushableCommands : Push(c)
    \/ Flush
    \/ WaitIdle
    \/ Drop
    \/ \E k \in 1..MaxSubmits : GpuComplete(k)

\* A CommandStream, its application and the hardware.
Spec == Init /\ [][Next]_vars

(***************************************************************************)
(* A GpFifoQueue driven directly through its public methods.               *)
(***************************************************************************)
\* The descriptor (gpu_address, command_count) a caller appends next: every
\* descriptor is for a buffer of its own, as in CommandStream::flush.
RingDescriptor ==
    <<(Len(submissions) * GPFIFO_QUEUE_SIZE + fifo.position + 1) * PAGE_SIZE,
      fifo.position + 1>>

\* GpFifoQueue::append
RingAppend(gpu_address, command_count) ==
    /\ pc = "ready"
    /\ IF AppendPanics(fifo)
       THEN /\ pc' = "panicked"
            /\ last' = Returned("append", "panic")
            /\ UNCHANGED fifo
       ELSE /\ fifo' = append(fifo, gpu_address, command_count)
            /\ last' = Returned("append", "Ok")
            /\ UNCHANGED pc
    /\ UNCHANGED <<command_list, in_process, allocs, submissions, completed, poll_fd,
                   unwaited>>
    /\ UNCHANGED <<encoder, handles, threads, instances>>

\* GpFifoQueue::submit
RingSubmit(ok) ==
    /\ pc = "ready"
    /\ ok => Len(submissions) < MaxSubmits
    /\ LET r == submit(fifo, submissions, ok)
       IN  /\ fifo' = r.fifo
           /\ submissions' = r.submissions
           /\ last' = Returned("submit", IF r.ok THEN "Ok" ELSE "Err")
           /\ unwaited' = Submitted(r)
    /\ UNCHANGED <<command_list, in_process, allocs, completed, pc, poll_fd>>
    /\ UNCHANGED <<encoder, handles, threads, instances>>

\* poll fails: GpFifoQueue::wait_idle returns the error.
RingWaitIdleFails ==
    /\ pc = "wait_idle"
    /\ pc' = "ready"
    /\ poll_fd' = None
    /\ last' = [last EXCEPT !.result = "Err"]
    /\ UNCHANGED <<command_list, fifo, in_process, allocs, submissions, completed,
                   unwaited>>
    /\ UNCHANGED <<encoder, handles, threads, instances>>

\* GpFifoQueue::wait_idle
RingWaitIdle ==
    \/ WaitIdleNoFence
    \/ WaitIdlePoll
    \/ WaitIdleReturns
    \/ RingWaitIdleFails

RingNext ==
    \/ RingAppend(RingDescriptor[1], RingDescriptor[2])
    \/ \E ok \in BOOLEAN : RingSubmit(ok)
    \/ RingWaitIdle
    \/ Drop
    \/ \E k \in 1..MaxSubmits : GpuComplete(k)

\* A GpFifoQueue, its caller and the hardware.
RingSpec == Init /\ [][RingNext]_vars

\* The ring with a hardware that finishes every batch it can run, and a
\* poll that returns once its fence is signalled.
RingLiveSpec ==
    /\ RingSpec
    /\ \A k \in 1..MaxSubmits : WF_vars(GpuComplete(k))
    /\ WF_vars(WaitIdleReturns)

(***************************************************************************)
(* The command encoder on its own: a command is built from inputs drawn    *)
(* from small sets and then linearised.                                    *)
(***************************************************************************)
EncMethods == {0, 263, 8191}

EncImmediates == {0, 1, 5, 2047}

\* Command::new_inline(method, sub_channel, immediate), with its inputs.
EncInline(m, sc, imm) ==
    [command |-> new_inline(m, sc, imm),
     inputs |-> [method |-> m, sub_channel |-> sc, immediate |-> imm]]

EncInit ==
    /\ command_list = <<>>
    /\ fifo = GpFifoQueue_new
    /\ in_process = <<>>
    /\ allocs = <<>>
    /\ submissions = <<>>
    /\ completed = <<>>
    /\ pc = "ready"
    /\ poll_fd = None
    /\ last = Returned("new", "Ok")
    /\ unwaited = <<>>
    /\ \E m \in EncMethods, sc \in SubChannelId, imm \in EncImmediates :
           cmd = Some(EncInline(m, sc, imm))
    /\ vec = None
    /\ handles = <<>>
    /\ threads = <<>>
    /\ instances = Initialized

\* Command::into_vec
IntoVec ==
    /\ cmd # None
    /\ vec = None
    /\ vec' = Some(into_vec(cmd[1].command))
    /\ last' = Returned("into_vec", "Ok")
    /\ UNCHANGED <<command_list, fifo, in_process, allocs, submissions, completed, pc,
                   poll_fd, unwaited, cmd, handles, threads, instances>>

EncNext == IntoVec

\* A Command and its caller.
EncSpec == EncInit /\ [][EncNext]_vars

(***************************************************************************)
(* The header word: a command is constructed and one field of its header   *)
(* is then set through GpFifoEntry's setters.                              *)
(***************************************************************************)
\* Methods: the ends of the 13 bit range, single bits and a mixed pattern.
HdrMethods == {0, 1, 263, 4096, 5461, 8191}

\* Every value of a 3 bit field.
HdrSubChannels == 0..7

\* Values written to the count field.
HdrCounts == {0, 5, 2047}

\* The command with the inputs it was built from.
Built(c, m, sub, mode) ==
    [command |-> c,
     inputs |-> [method |-> m, sub_channel |-> sub, submission_mode |-> mode]]

HdrInit ==
    /\ command_list = <<>>
    /\ fifo = GpFifoQueue_new
    /\ in_process = <<>>
    /\ allocs = <<>>
    /\ submissions = <<>>
    /\ completed = <<>>
    /\ pc = "ready"
    /\ poll_fd = None
    /\ last = Returned("none", "Ok")
    /\ unwaited = <<>>
    /\ cmd = None
    /\ vec = None
    /\ handles = <<>>
    /\ threads = <<>>
    /\ instances = Initialized

\* What a step on the header leaves alone.
HdrUnchanged ==
    UNCHANGED <<command_list, fifo, in_process, allocs, submissions, completed, pc,
                poll_fd, unwaited, vec, handles, threads, instances>>

\* Command::new_raw(method, sub_channel, submission_mode)
NewRaw(m, sub, mode) ==
    /\ cmd = None
    /\ cmd' = Some(Built(new_raw(m, sub, mode), m, sub, mode))
    /\ last' = Returned("new_raw", "Ok")
    /\ HdrUnchanged

\* Command::new(method, sub_channel, submission_mode)
New(m, sc, mode) ==
    /\ cmd = None
    /\ cmd' = Some(Built(new(m, sc, mode), m, sc, mode))
    /\ last' = Returned("new", "Ok")
    /\ HdrUnchanged

\* One call of a setter of the entry, right after the construction.
SetField(op, entry) ==
    /\ cmd # None
    /\ last.op \in {"new_raw", "new"}
    /\ cmd' = Some([cmd[1] EXCEPT !.command.entry = entry])
    /\ last' = Returned(op, "Ok")
    /\ HdrUnchanged

SetMethod(v) == SetField("set_method", set_method(cmd[1].command.entry, v))

SetSubChannel(v) == SetField("set_sub_channel", set_sub_channel(cmd[1].command.entry, v))

SetSubmissionMode(v) ==
    SetField("set_submission_mode", set_submission_mode(cmd[1].command.entry, v))

SetArgumentCount(v) ==
    SetField("set_argument_count", set_argument_count(cmd[1].command.entry, v))

HdrNext ==
    \/ \E m \in HdrMethods, sub \in HdrSubChannels, mode \in CommandSubmissionMode :
           NewRaw(m, sub, mode)
    \/ \E m \in HdrMethods, sc \in SubChannelId, mode \in CommandSubmissionMode :
           New(m, sc, mode)
    \/ \E v \in HdrMethods : SetMethod(v)
    \/ \E v \in HdrSubChannels : SetSubChannel(v)
    \/ \E v \in HdrSubChannels : SetSubmissionMode(v)
    \/ \E v \in HdrCounts : SetArgumentCount(v)

\* The header word of a Command and the caller of its constructors.
HdrSpec == HdrInit /\ [][HdrNext]_vars

(***************************************************************************)
(* The arguments of a command: a caller pushes words, addresses and byte   *)
(* buffers into a command of any mode and linearises it.                   *)
(***************************************************************************)
\* The caller pushes while the command holds fewer words than this.
MaxArguments == 2

\* Length of the longest of the short byte buffers.
MaxBytes == 6

\* Words pushed: a small one and one with every bit set.
ArgWords == {U32(7), [i \in 0..31 |-> 1]}

\* Addresses pushed: no bit, the bits at the ends of each half, every bit and
\* a mixed pattern.
ArgAddresses ==
    {U64Bits(S) : S \in {{}, {0}, {31}, {32}, {63}, {0, 33, 62}, 0..63}}

\* The byte slice with the bytes f[1], ..., f[n].
Bytes(f) == <<>> \o f

\* The first n bytes of 85, 170, 255, 84, ...
MixedBytes(n) == Bytes([i \in 1..n |-> (85 * i) % 256])

\* Buffers pushed: 1, 2, 3, 4, 5, 6 and the mixed bytes at every length up
\* to MaxBytes.
ArgBuffers ==
    {Bytes([i \in 1..n |-> i]) : n \in 0..MaxBytes}
        \cup {MixedBytes(n) : n \in 1..MaxBytes}

ArgInit ==
    /\ command_list = <<>>
    /\ fifo = GpFifoQueue_new
    /\ in_process = <<>>
    /\ allocs = <<>>
    /\ submissions = <<>>
    /\ completed = <<>>
    /\ pc = "ready"
    /\ poll_fd = None
    /\ last = Returned("new", "Ok")
    /\ unwaited = <<>>
    /\ \E mode \in CommandSubmissionMode :
           cmd = Some(Built(new(453, "DirectMemoryAccess", mode),
                            453, "DirectMemoryAccess", mode))
    /\ vec = None
    /\ handles = <<>>
    /\ threads = <<>>
    /\ instances = Initialized

\* A call on the command that pushes: it panics, or stores the command c.
\* The input of the call is kept next to the command.
PushCall(op, input, panics, c) ==
    /\ pc = "ready"
    /\ vec = None
    /\ Len(cmd[1].command.arguments) < MaxArguments
    /\ IF panics
       THEN /\ pc' = "panicked"
            /\ last' = Returned(op, "panic")
            /\ cmd' = Some([command |-> cmd[1].command, inputs |-> input])
       ELSE /\ cmd' = Some([command |-> c, inputs |-> input])
            /\ last' = Returned(op, "Ok")
            /\ UNCHANGED pc
    /\ UNCHANGED <<command_list, fifo, in_process, allocs, submissions, completed,
                   poll_fd, unwaited, vec, handles, threads, instances>>

\* Command::push_argument
PushArgument(argument) ==
    PushCall("push_argument", argument, push_argument_panics(cmd[1].command),
             push_argument(cmd[1].command, argument))

\* Command::push_address
PushAddress(address) ==
    PushCall("push_address", address, push_argument_panics(cmd[1].command),
             push_address(cmd[1].command, address))

\* Command::push_inlined_buffer
PushInlinedBuffer(data) ==
    PushCall("push_inlined_buffer", data,
             push_inlined_buffer_panics(cmd[1].command, data),
             push_inlined_buffer(cmd[1].command, data))

\* Command::into_vec, by a caller that has not panicked.
ArgIntoVec == pc = "ready" /\ IntoVec

ArgNext ==
    \/ \E argument \in ArgWords : PushArgument(argument)
    \/ \E address \in ArgAddresses : PushAddress(address)
    \/ \E data \in ArgBuffers : PushInlinedBuffer(data)
    \/ ArgIntoVec

\* A Command, the caller that fills it and linearises it.
ArgSpec == ArgInit /\ [][ArgNext]_vars

(***************************************************************************)
(* The count of a command: a caller pushes one byte buffer, short or of    *)
(* thousands of words, and linearises the command.                         *)
(***************************************************************************)
\* Number of values of the 11 bit count field (bits 26:16).
CountValues == 2048

\* Lengths in bytes: nothing, one word, and the lengths around the one
\* that makes as many words as the count field has values.
CountLengths ==
    {0, 4, 4 * (CountValues - 1), 4 * CountValues - 3, 4 * CountValues,
     4 * CountValues + 1}

\* The buffer of n bytes 1, 0, 0, 0, 1, 0, 0, 0, ...
WordsOfOne(n) == Bytes([i \in 1..n |-> IF i % 4 = 1 THEN 1 ELSE 0])

CountBuffers == {WordsOfOne(n) : n \in CountLengths}

CountInit ==
    /\ command_list = <<>>
    /\ fifo = GpFifoQueue_new
    /\ in_process = <<>>
    /\ allocs = <<>>
    /\ submissions = <<>>
    /\ completed = <<>>
    /\ pc = "ready"
    /\ poll_fd = None
    /\ last = Returned("new", "Ok")
    /\ unwaited = <<>>
    /\ \E m \in {0, 453}, mode \in CommandSubmissionMode :
           cmd = Some(Built(new(m, "DirectMemoryAccess", mode),
                            m, "DirectMemoryAccess", mode))
    /\ vec = None
    /\ handles = <<>>
    /\ threads = <<>>
    /\ instances = Initialized

CountNext ==
    \/ \E data \in CountBuffers : PushInlinedBuffer(data)
    \/ ArgIntoVec

\* A Command, the caller that pushes a buffer and linearises it.
CountSpec == CountInit /\ [][CountNext]_vars

(***************************************************************************)
(* GpuAllocated on its own: a caller allocates buffers, asks for host      *)
(* views, unmaps, maintains the cache and drops the buffers, each kernel   *)
(* call free to fail.                                                      *)
(***************************************************************************)
\* Number of handles the memory manager creates.
MaxHandles == 2

\* Sizes asked for, in bytes.
AllocSizes == {8, 12}

\* Addresses mmap may return: one more than there are handles.
MmapAddresses == {65536 + k * PAGE_SIZE : k \in 0..MaxHandles}

\* The addresses of the live mappings of the process.
MappedAddresses(hs, as) ==
    {as[i].handle.mapped_address[1] :
        i \in {j \in 1..Len(as) : /\ as[j].handle.mapped_address # None
                                    /\ hs[as[j].handle.raw_handle].mmaps > 0}}

\* What a call returned, with the value it returned.
ReturnedValue(op, result, value) ==
    [op |-> op, result |-> result, waited |-> <<>>, value |-> value]

\* GpuAllocated::new: the alignment passed on, for an align that fits a u32.
AlignRequest(align) == IF align < PAGE_SIZE THEN PAGE_SIZE ELSE align

\* How GpuAllocated::new ends: at the step that fails, or "ok".
AllocOutcomes == NewSteps \cup {"get_fd", "ok"}

\* The memory manager after GpuAllocated::new ended with outcome.
AllocKernel(hs, user_size, align, outcome) ==
    LET h == Len(hs) + 1
    IN  CASE outcome = "create" -> hs
          [] outcome = "get_fd" -> KernelCreate(hs, PageRound(user_size), FALSE)
          [] outcome = "allocate" -> KernelCreate(hs, PageRound(user_size), TRUE)
          [] OTHER -> KernelAllocate(KernelCreate(hs, PageRound(user_size), TRUE),
                                     h, AlignRequest(align))

\* x taken out of the sequence s.
Without(s, x) == SelectSeq(s, LAMBDA y : y # x)

AllocInit ==
    /\ command_list = <<>>
    /\ fifo = GpFifoQueue_new
    /\ in_process = <<>>
    /\ allocs = <<>>
    /\ submissions = <<>>
    /\ completed = <<>>
    /\ pc = "ready"
    /\ poll_fd = None
    /\ last = ReturnedValue("none", "Ok", None)
    /\ unwaited = <<>>
    /\ cmd = None
    /\ vec = None
    /\ handles = <<>>
    /\ threads = <<>>
    /\ instances = Initialized

\* What a call on a GpuAllocated leaves alone.
AllocUnchanged ==
    UNCHANGED <<command_list, fifo, submissions, completed, poll_fd, unwaited, cmd, vec,
                threads, instances>>

\* GpuAllocated::new(user_size, align)
Allocate(user_size, align, outcome) ==
    /\ pc = "ready"
    /\ Len(handles) < MaxHandles
    /\ outcome \in AllocOutcomes
    /\ handles' = AllocKernel(handles, user_size, align, outcome)
    /\ IF outcome = "ok"
       THEN /\ allocs' = Append(allocs,
                    [GpuAllocated_new(Len(allocs) + 1, user_size, align)
                        EXCEPT !.handle.raw_handle = Len(handles) + 1])
            /\ in_process' = Append(in_process, Len(allocs) + 1)
       ELSE UNCHANGED <<allocs, in_process>>
    /\ last' = ReturnedValue("new", IF outcome = "ok" THEN "Ok" ELSE "Err", None)
    /\ UNCHANGED pc
    /\ AllocUnchanged

HostViews == {"map", "map_mut", "map_array", "map_array_mut"}

\* A call on the live allocation id that asks the kernel for something
\* (asks), the kernel agreeing or not (ok): a and hs are the allocation and
\* the memory manager after a call the kernel agreed to.
AllocCall(op, id, asks, ok, a, hs) ==
    /\ pc = "ready"
    /\ \E i \in 1..Len(in_process) : in_process[i] = id
    /\ asks \/ ok
    /\ IF ok
       THEN allocs' = [allocs EXCEPT ![id] = a] /\ handles' = hs
       ELSE UNCHANGED <<allocs, handles>>
    /\ last' = ReturnedValue(op, IF ok THEN "Ok" ELSE "Err",
                              IF ok /\ op \in HostViews
                              THEN a.handle.mapped_address ELSE None)
    /\ UNCHANGED <<pc, in_process>>
    /\ AllocUnchanged

\* GpuAllocated::map, map_mut, map_array, map_array_mut (kind); address is
\* what mmap returns when it is called and succeeds.
HostView(id, kind, address, ok) ==
    LET a == allocs[id]
    IN  /\ address \notin MappedAddresses(handles, allocs)
        /\ AllocCall(kind, id, map_calls_mmap(a), ok, nvmap_map_at(a, address),
                      IF map_calls_mmap(a)
                      THEN KernelMmap(handles, a.handle.raw_handle) ELSE handles)

\* GpuAllocated::unmap
Unmap(id, ok) ==
    LET a == allocs[id]
    IN  AllocCall("unmap", id, unmap_calls_munmap(a), ok,
                  IF unmap_calls_munmap(a) THEN nvmap_unmap(a) ELSE a,
                  IF unmap_calls_munmap(a)
                  THEN KernelMunmap(handles, a.handle.raw_handle) ELSE handles)

\* GpuAllocated::flush
CacheFlush(id, ok) ==
    LET a == allocs[id]
    IN  AllocCall("flush", id, cache_calls_ioctl(a), ok, GpuAllocated_flush(a), handles)

\* GpuAllocated::invalidate
Invalidate(id, ok) ==
    LET a == allocs[id]
    IN  AllocCall("invalidate", id, cache_calls_ioctl(a), ok,
                  GpuAllocated_invalidate(a), handles)

\* Drop for GpuAllocated, by the owner of the allocation id.
DropAlloc(id, outcome) ==
    LET a == allocs[id]
    IN  /\ pc = "ready"
        /\ \E i \in 1..Len(in_process) : in_process[i] = id
        /\ DropPossible(a, outcome)
        /\ allocs' = [allocs EXCEPT ![id] = GpuAllocated_drop(a, outcome)]
        /\ handles' = IF unmap_calls_munmap(a) /\ outcome # "unmap_failed"
                       THEN KernelMunmap(handles, a.handle.raw_handle)
                       ELSE handles
        /\ in_process' = Without(in_process, id)
        /\ pc' = IF outcome = "ok" THEN "ready" ELSE "panicked"
        /\ last' = ReturnedValue("drop", IF outcome = "ok" THEN "Ok" ELSE "panic", None)
        /\ AllocUnchanged

AllocNext ==
    \/ \E user_size \in AllocSizes, outcome \in AllocOutcomes :
           Allocate(user_size, FLUSH_ALIGN, outcome)
    \/ \E id \in 1..MaxHandles, kind \in HostViews, address \in MmapAddresses,
             ok \in BOOLEAN : HostView(id, kind, address, ok)
    \/ \E id \in 1..MaxHandles, ok \in BOOLEAN : Unmap(id, ok)
    \/ \E id \in 1..MaxHandles, ok \in BOOLEAN : CacheFlush(id, ok)
    \/ \E id \in 1..MaxHandles, ok \in BOOLEAN : Invalidate(id, ok)
    \/ \E id \in 1..MaxHandles, outcome \in DropOutcomes : DropAlloc(id, outcome)

\* GpuAllocated values, their owner and the memory manager.
AllocSpec == AllocInit /\ [][AllocNext]_vars

(***************************************************************************)
(* GpuAllocated::new at the width of its arithmetic: user_size and align   *)
(* are usize (64 bits on the target), the size and alignment it asks the   *)
(* memory manager for are u32.                                             *)
(***************************************************************************)
\* Number of allocations made with wide arguments.
MaxSized == 1

\* n as usize.
Usize(n) == [i \in 0..63 |-> Bit(n, i)]

\* w at width n, zero extended.
Extend(w, n) == [i \in 0..(n - 1) |-> IF i \in DOMAIN w THEN w[i] ELSE 0]

\* a < b, for unsigned words of one width.
BitsLess(a, b) ==
    \E i \in DOMAIN a :
        /\ a[i] < b[i]
        /\ \A j \in DOMAIN a : j > i => a[j] = b[j]

RECURSIVE CarryInto(_, _, _)
\* The carry into bit i of a + b.
CarryInto(a, b, i) ==
    IF i = 0 THEN 0 ELSE (a[i - 1] + b[i - 1] + CarryInto(a, b, i - 1)) \div 2

\* a + b at the width of a, wrapping.
wrapping_add(a, b) == [i \in DOMAIN a |-> (a[i] + b[i] + CarryInto(a, b, i)) % 2]

\* a + b does not fit the width of a.
add_overflows(a, b) == CarryInto(a, b, Cardinality(DOMAIN a)) = 1

\* a & !b
and_not(a, b) == [i \in DOMAIN a |-> a[i] * (1 - b[i])]

\* if align < PAGE_SIZE as usize { PAGE_SIZE } else { align as u32 }
new_align(align) ==
    IF BitsLess(align, Usize(PAGE_SIZE)) THEN U32(PAGE_SIZE) ELSE as_u32(align)

\* user_size as u32 + (PAGE_SIZE - 1) overflows u32.
new_size_overflows(user_size) == add_overflows(as_u32(user_size), U32(PAGE_SIZE - 1))

\* (user_size as u32 + (PAGE_SIZE - 1)) & !(PAGE_SIZE - 1)
new_size(user_size) ==
    and_not(wrapping_add(as_u32(user_size), U32(PAGE_SIZE - 1)), U32(PAGE_SIZE - 1))

\* Sizes asked for: around a page, around 2^32 and at the top of usize.
WideSizes ==
    {U64Bits(S) : S \in {{}, {0}, {3}, 0..11, {12}, {0, 12}, {17}, {31}, 12..31,
                          {0} \cup (12..31), 0..31, {32}, {3, 32}, {63}, 0..63}}

\* Alignments asked for.
WideAligns ==
    {U64Bits(S) : S \in {{}, {0}, {12}, {17}, {31}, {32}, {12, 32}, {63}}}

SizeInit == AllocInit

\* GpuAllocated::new(user_size, align), every kernel call succeeding, in a
\* build with overflow checks (a debug build) or without (a release build).
NewSized(user_size, align, overflow_checks) ==
    /\ pc = "ready"
    /\ Len(allocs) < MaxSized
    /\ IF overflow_checks /\ new_size_overflows(user_size)
       THEN /\ pc' = "panicked"
            /\ last' = ReturnedValue("new", "panic",
                            Some([user_size |-> user_size, align |-> align]))
            /\ UNCHANGED <<allocs, handles, in_process>>
       ELSE /\ handles' = KernelAllocate(
                    KernelCreate(handles, new_size(user_size), TRUE),
                    Len(handles) + 1, new_align(align))
            /\ allocs' = Append(allocs,
                    [handle |-> [size |-> new_size(user_size),
                                 raw_handle |-> Len(handles) + 1,
                                 mapped_address |-> None],
                     gpu_address |-> MappedAddress(Len(allocs) + 1),
                     user_size |-> user_size,
                     gpu_mapped |-> TRUE])
            /\ in_process' = Append(in_process, Len(allocs) + 1)
            /\ last' = ReturnedValue("new", "Ok",
                            Some([user_size |-> user_size, align |-> align]))
            /\ UNCHANGED pc
    /\ AllocUnchanged

SizeNext ==
    \E user_size \in WideSizes, align \in WideAligns, overflow_checks \in BOOLEAN :
        NewSized(user_size, align, overflow_checks)

\* GpuAllocated::new over the whole range of its arguments.
SizeSpec == SizeInit /\ [][SizeNext]_vars

(***************************************************************************)
(* One GpuAllocated of one word, the CPU writing and reading through its   *)
(* host view, the device writing its memory, and the cache maintenance     *)
(* calls between them.  The cache writes a line back or drops it only when *)
(* a maintenance request tells it to.                                      *)
(***************************************************************************)
\* 0xCAFEBABE
CAFEBABE == [i \in 0..31 |-> IF i \in {1, 2, 3, 4, 5, 7, 9, 11, 12, 13, 15, 17, 18, 19, 20, 21, 22, 23, 25, 27, 30, 31} THEN 1 ELSE 0]

\* Values written to the buffer.
CacheWords == {U32(1), CAFEBABE}

CacheInit ==
    /\ command_list = <<>>
    /\ fifo = GpFifoQueue_new
    /\ in_process = <<1>>
    /\ allocs = <<GpuAllocated_new(1, WORD_BYTES, FLUSH_ALIGN)>>
    /\ submissions = <<>>
    /\ completed = <<>>
    /\ pc = "ready"
    /\ poll_fd = None
    /\ last = ReturnedValue("new", "Ok", None)
    /\ unwaited = <<>>
    /\ cmd = None
    /\ vec = None
    /\ handles = AllocKernel(<<>>, WORD_BYTES, FLUSH_ALIGN, "ok")
    /\ threads = <<>>
    /\ instances = Initialized

\* An access of the CPU through a reference a host-view call returned: the
\* reference is good while the handle is mapped.
HostAccess(op, id, a, value) ==
    /\ pc = "ready"
    /\ \E i \in 1..Len(in_process) : in_process[i] = id
    /\ allocs[id].handle.mapped_address # None
    /\ allocs' = [allocs EXCEPT ![id] = a]
    /\ last' = ReturnedValue(op, "Ok", value)
    /\ UNCHANGED <<pc, in_process, handles>>
    /\ AllocUnchanged

\* *reference = value
HostWrite(id, value) == HostAccess("write", id, host_write(allocs[id], 1, value), None)

\* *reference
HostRead(id) == HostAccess("read", id, host_read(allocs[id], 1), Some(allocs[id].host[1]))

\* The device writes the buffer.
DeviceWrite(id, value) ==
    /\ id \in 1..Len(allocs)
    /\ allocs[id].gpu_mapped
    /\ allocs[id].mem[1] # value
    /\ allocs' = [allocs EXCEPT ![id] = device_write(allocs[id], 1, value)]
    /\ UNCHANGED <<pc, in_process, handles, last>>
    /\ AllocUnchanged

CacheNext ==
    \/ \E kind \in HostViews, address \in MmapAddresses, ok \in BOOLEAN :
           HostView(1, kind, address, ok)
    \/ \E ok \in BOOLEAN : Unmap(1, ok)
    \/ \E ok \in BOOLEAN : CacheFlush(1, ok)
    \/ \E ok \in BOOLEAN : Invalidate(1, ok)
    \/ \E value \in CacheWords : HostWrite(1, value)
    \/ HostRead(1)
    \/ \E value \in CacheWords : DeviceWrite(1, value)

\* A GpuAllocated between the CPU, its cache and the device.
CacheSpec == CacheInit /\ [][CacheNext]_vars

(***************************************************************************)
(* The copy engine: memcpy_1d on the host, and the hardware reading the    *)
(* words of a batch as method writes and running the copy they launch.     *)
(***************************************************************************)
\* LaunchDma with the fields memcpy_1d sets: NonPipelined, flush_enable,
\* Pitch source and destination, Virtual source and destination.
launch_dma ==
    SetBitRange(SetBitRange(SetBitRange(SetBitRange(SetBitRange(SetBitRange(
        U32(0), 1, 0, 2), 2, 2, 1), 7, 7, 1), 8, 8, 1), 12, 12, 0), 13, 13, 0)

\* The commands memcpy_1d pushes, in order.
memcpy_1d(dst, src, size) ==
    <<new_inline(263, "DirectMemoryAccess", 1),
      push_argument(push_argument(push_argument(
          new(453, "DirectMemoryAccess", "Increasing"), U32(size)), U32(1)), U32(0)),
      push_argument(push_argument(push_argument(
          new(460, "DirectMemoryAccess", "Increasing"), U32(size)), U32(1)), U32(0)),
      push_address(push_address(
          new(256, "DirectMemoryAccess", "Increasing"), src), dst),
      push_argument(new(262, "DirectMemoryAccess", "Increasing"), U32(size)),
      push_argument(new(192, "DirectMemoryAccess", "Increasing"), launch_dma)>>

\* The method the j-th argument of a command is written to.
ArgumentMethod(header, j) ==
    LET mode == submission_mode(header)
    IN  CASE mode \in {0, 1} -> method(header) + (j - 1)
          [] mode \in {2, 3} -> method(header)
          [] OTHER -> method(header) + (IF j = 1 THEN 0 ELSE 1)

RECURSIVE MethodWrites(_)
\* The method writes the hardware reads from the words of a batch.
MethodWrites(words) ==
    IF words = <<>> THEN <<>>
    ELSE LET header == words[1]
             inline == submission_mode(header) = 4
             n == IF inline THEN 0
                  ELSE IF argument_count(header) < Len(words)
                       THEN argument_count(header) ELSE Len(words) - 1
             writes ==
                 IF inline
                 THEN <<[method |-> method(header), sub_channel |-> sub_channel(header),
                         value |-> U32(inline_arguments(header))]>>
                 ELSE [j \in 1..n |->
                          [method |-> ArgumentMethod(header, j),
                           sub_channel |-> sub_channel(header),
                           value |-> words[j + 1]]]
         IN  writes \o MethodWrites(SubSeq(words, n + 2, Len(words)))

\* The registers of the copy engine: OFFSET_IN, OFFSET_OUT (upper, lower),
\* PITCH_IN, PITCH_OUT, LINE_LENGTH_IN, LINE_COUNT.
DmaRegisters == 256..263

\* The address in a pair of registers, or None when no buffer of the model
\* can be there.
DmaAddress(upper, lower) ==
    IF upper = U32(0) /\ lower[31] = 0 THEN Some(BitsValue(lower, 30, 0)) ELSE None

\* The buffers mapped for the device at address.
BuffersAt(al, address) ==
    {id \in 1..Len(al) : al[id].gpu_mapped /\ address = Some(al[id].gpu_address)}

\* The device copies the first bytes of the buffer s into the buffer d.
DmaCopy(al, d, s, bytes) ==
    LET copied(i) == i <= bytes \div WORD_BYTES /\ i <= Len(al[s].mem)
        mem == [i \in 1..Len(al[d].mem) |->
                   IF copied(i) THEN al[s].mem[i] ELSE al[d].mem[i]]
        host == [i \in 1..Len(al[d].host) |->
                    IF copied(i) /\ ~al[d].cached THEN al[s].mem[i] ELSE al[d].host[i]]
    IN  [al EXCEPT ![d].mem = mem, ![d].host = host]

\* LAUNCH_DMA written with value: one line of LINE_LENGTH_IN bytes goes from
\* OFFSET_IN to OFFSET_OUT.
DmaLaunch(al, regs, value) ==
    LET src == BuffersAt(al, DmaAddress(regs[256], regs[257]))
        dst == BuffersAt(al, DmaAddress(regs[258], regs[259]))
    IN  IF BitRange(value, 1, 0) = 0 \/ src = {} \/ dst = {} \/ regs[262][31] = 1
        THEN al
        ELSE DmaCopy(al, CHOOSE d \in dst : TRUE, CHOOSE x \in src : TRUE,
                     BitsValue(regs[262], 30, 0))

RECURSIVE DmaRun(_, _, _)
\* The copy engine taking the method writes of a batch, one after the other.
DmaRun(writes, regs, al) ==
    IF writes = <<>> THEN al
    ELSE LET w == Head(writes)
         IN  IF w.sub_channel # SubChannelU32("DirectMemoryAccess")
             THEN DmaRun(Tail(writes), regs, al)
             ELSE IF w.method \in DmaRegisters
             THEN DmaRun(Tail(writes), [regs EXCEPT ![w.method] = w.value], al)
             ELSE IF w.method = 192
             THEN DmaRun(Tail(writes), regs, DmaLaunch(al, regs, w.value))
             ELSE DmaRun(Tail(writes), regs, al)

RECURSIVE BatchWords(_, _)
\* The words the hardware fetches for the entries of a batch: for each entry,
\* as many words as it counts of the buffer at its address.
BatchWords(al, entries) ==
    IF entries = <<>> THEN <<>>
    ELSE LET e == entries[1]
             at == BuffersAt(al, Some(EntryAddress(e)))
             words == IF at = {} THEN <<>>
                      ELSE LET m == al[CHOOSE id \in at : TRUE].mem
                           IN  [i \in 1..(IF EntryCount(e) < Len(m)
                                           THEN EntryCount(e) ELSE Len(m)) |-> m[i]]
         IN  (<<>> \o words) \o BatchWords(al, Tail(<<>> \o entries))

(***************************************************************************)
(* End to end: the application owns two buffers A (1) and B (2) of one     *)
(* word and a stream whose sub-channels are bound.  It writes A through    *)
(* its host view, flushes A, has the device copy A to B, waits for the     *)
(* stream to be idle, invalidates B and reads B, leaving at the first call *)
(* that fails, while the hardware runs the batch when it gets to it.       *)
(***************************************************************************)
\* The application is past the call op, which returned Ok, with n buffers
\* allocated so far.
After(op, n) == last.op = op /\ last.result = "Ok" /\ Len(allocs) = n /\ pc = "ready"

CopyInit ==
    /\ command_list = <<>>
    /\ fifo = GpFifoQueue_new
    /\ in_process = <<1, 2>>
    /\ allocs = <<GpuAllocated_new(1, WORD_BYTES, FLUSH_ALIGN),
                  GpuAllocated_new(2, WORD_BYTES, FLUSH_ALIGN)>>
    /\ submissions = <<>>
    /\ completed = <<>>
    /\ pc = "ready"
    /\ poll_fd = None
    /\ last = ReturnedValue("new", "Ok", None)
    /\ unwaited = <<>>
    /\ cmd = None
    /\ vec = None
    /\ handles = AllocKernel(AllocKernel(<<>>, WORD_BYTES, FLUSH_ALIGN, "ok"),
                             WORD_BYTES, FLUSH_ALIGN, "ok")
    /\ threads = <<>>
    /\ instances = Initialized

\* memcpy_1d(command_stream, dst, src, size): six pushes, none of which can
\* fail.
Memcpy1d(dst, src, size) ==
    /\ pc = "ready"
    /\ command_list' = command_list \o memcpy_1d(dst, src, size)
    /\ last' = ReturnedValue("memcpy_1d", "Ok", None)
    /\ UNCHANGED <<fifo, in_process, allocs, submissions, completed, pc, poll_fd, unwaited>>
    /\ UNCHANGED <<encoder, handles, threads, instances>>

\* The hardware runs batch k: it fetches the words its entries point at and
\* the copy engine takes their method writes.
GpuExecute(k) ==
    /\ k \in 1..Len(submissions)
    /\ ~submissions[k].done
    /\ CanRun(submissions, k)
    /\ allocs' = DmaRun(MethodWrites(BatchWords(allocs, submissions[k].entries)),
                         [m \in DmaRegisters |-> U32(0)], allocs)
    /\ submissions' = [submissions EXCEPT ![k].done = TRUE, ![k].entries = <<>>]
    /\ completed' = Append(completed, k)
    /\ UNCHANGED <<command_list, fifo, in_process, pc, poll_fd, last, unwaited>>
    /\ UNCHANGED <<encoder, handles, threads, instances>>

CopyNext ==
    \/ /\ After("new", 2)
       /\ \E address \in MmapAddresses, ok \in BOOLEAN : HostView(1, "map_mut", address, ok)
    \/ /\ After("map_mut", 2)
       /\ \E value \in CacheWords : HostWrite(1, value)
    \/ /\ After("write", 2)
       /\ \E ok \in BOOLEAN : CacheFlush(1, ok)
    \/ /\ After("flush", 2)
       /\ Memcpy1d(Usize(allocs[2].gpu_address), Usize(allocs[1].gpu_address), WORD_BYTES)
    \/ /\ After("memcpy_1d", 2)
       /\ \/ \E ok \in BOOLEAN : FlushReachesSubmit(ok)
          \/ \E stage \in FillSteps, outcome \in DropOutcomes : FlushFillFails(stage, outcome)
          \/ \E stage \in NewSteps : FlushNewFails(stage)
    \/ /\ After("flush", 3)
       /\ WaitIdlePoll
    \/ WaitIdleReturns
    \/ WaitIdlePanics
    \/ /\ After("wait_idle", 3)
       /\ \E ok \in BOOLEAN : Invalidate(2, ok)
    \/ /\ After("invalidate", 3)
       /\ \E address \in MmapAddresses, ok \in BOOLEAN : HostView(2, "map", address, ok)
    \/ /\ After("map", 3)
       /\ HostRead(2)
    \/ GpuExecute(1)

\* The application, its stream, its two buffers and the hardware.
CopySpec == CopyInit /\ [][CopyNext]_vars

(***************************************************************************)
(* Threads sharing one GpuAllocated: each calls map and unmap, which lock  *)
(* the mutex around the handle for the length of the call; inside, the     *)
(* steps of NvMap::map and NvMap::unmap are taken one at a time.           *)
(***************************************************************************)
\* Number of threads sharing the allocation.
MaxThreads == 2

Threads == 1..MaxThreads

\* A handle any thread may enter at any time.
mutex_ignored(th) == TRUE

\* self.handle.lock() returns: no thread holds the guard.
mutex_free(th) == th.holder = None

ThreadInit ==
    /\ command_list = <<>>
    /\ fifo = GpFifoQueue_new
    /\ in_process = <<1>>
    /\ allocs = <<GpuAllocated_new(1, WORD_BYTES, FLUSH_ALIGN)>>
    /\ submissions = <<>>
    /\ completed = <<>>
    /\ pc = "ready"
    /\ poll_fd = None
    /\ last = ReturnedValue("new", "Ok", None)
    /\ unwaited = <<>>
    /\ cmd = None
    /\ vec = None
    /\ handles = AllocKernel(<<>>, WORD_BYTES, FLUSH_ALIGN, "ok")
    /\ threads = [holder |-> None,
                  at |-> [t \in Threads |-> "idle"],
                  mmap_res |-> [t \in Threads |-> None]]
    /\ instances = Initialized

\* What a step of a thread leaves alone.
ThreadUnchanged ==
    UNCHANGED <<command_list, fifo, in_process, submissions, completed, pc, poll_fd,
                unwaited, cmd, vec, instances>>

\* The thread t moves from one place of its call to the next.
Moves(t, from, to) ==
    /\ threads.at[t] = from
    /\ threads' = [threads EXCEPT !.at[t] = to]

\* The call of t returns value: the guard is dropped with it.
Returns(t, from, op, result, value) ==
    /\ threads.at[t] = from
    /\ threads' = [threads EXCEPT !.at[t] = "idle", !.holder = None,
                                   !.mmap_res[t] = None]
    /\ last' = ReturnedValue(op, result, value)

\* t calls GpuAllocated::map (kind "map") or unmap, and waits for the mutex.
ThreadCalls(t, kind) ==
    /\ Moves(t, "idle", kind \o "_lock")
    /\ UNCHANGED <<allocs, handles, last>>
    /\ ThreadUnchanged

\* self.handle.lock().unwrap()
ThreadLocks(t, kind) ==
    /\ mutex_free(threads)
    /\ threads.at[t] = kind \o "_lock"
    /\ threads' = [threads EXCEPT !.at[t] = kind, !.holder = Some(t)]
    /\ UNCHANGED <<allocs, handles, last>>
    /\ ThreadUnchanged

\* NvMap::map: if handle.addr().is_some() { return Ok(()) }
MapChecks(t) ==
    /\ IF map_calls_mmap(allocs[1])
       THEN Moves(t, "map", "mmap") /\ UNCHANGED last
       ELSE Returns(t, "map", "map", "Ok", allocs[1].handle.mapped_address)
    /\ UNCHANGED <<allocs, handles>>
    /\ ThreadUnchanged

\* NvMap::map: mmap(..)?
MapMmaps(t, address, ok) ==
    /\ address \notin MappedAddresses(handles, allocs)
    /\ \A u \in Threads : threads.mmap_res[u] # Some(address)
    /\ IF ok
       THEN /\ threads.at[t] = "mmap"
            /\ threads' = [threads EXCEPT !.at[t] = "store", !.mmap_res[t] = Some(address)]
            /\ handles' = KernelMmap(handles, allocs[1].handle.raw_handle)
            /\ UNCHANGED last
       ELSE /\ Returns(t, "mmap", "map", "Err", None)
            /\ UNCHANGED handles
    /\ UNCHANGED allocs
    /\ ThreadUnchanged

\* NvMap::map: handle.mapped_address = Some(mmap_res); Ok(())
MapStores(t) ==
    /\ threads.at[t] = "store"
    /\ allocs' = [allocs EXCEPT ![1].handle.mapped_address = threads.mmap_res[t]]
    /\ Returns(t, "store", "map", "Ok", threads.mmap_res[t])
    /\ UNCHANGED handles
    /\ ThreadUnchanged

\* NvMap::unmap: if let Some(addr) = handle.addr()
UnmapChecks(t) ==
    /\ IF unmap_calls_munmap(allocs[1])
       THEN Moves(t, "unmap", "munmap") /\ UNCHANGED last
       ELSE Returns(t, "unmap", "unmap", "Ok", None)
    /\ UNCHANGED <<allocs, handles>>
    /\ ThreadUnchanged

\* NvMap::unmap: munmap(addr, size)?
UnmapMunmaps(t, ok) ==
    /\ IF ok
       THEN /\ Moves(t, "munmap", "clear")
            /\ handles' = KernelMunmap(handles, allocs[1].handle.raw_handle)
            /\ UNCHANGED last
       ELSE /\ Returns(t, "munmap", "unmap", "Err", None)
            /\ UNCHANGED handles
    /\ UNCHANGED allocs
    /\ ThreadUnchanged

\* NvMap::unmap: handle.mapped_address = None; Ok(())
UnmapClears(t) ==
    /\ threads.at[t] = "clear"
    /\ allocs' = [allocs EXCEPT ![1] = nvmap_unmap(allocs[1])]
    /\ Returns(t, "clear", "unmap", "Ok", None)
    /\ UNCHANGED handles
    /\ ThreadUnchanged

ThreadNext ==
    \E t \in Threads :
        \/ \E kind \in {"map", "unmap"} : ThreadCalls(t, kind)
        \/ \E kind \in {"map", "unmap"} : ThreadLocks(t, kind)
        \/ MapChecks(t)
        \/ \E address \in MmapAddresses, ok \in BOOLEAN : MapMmaps(t, address, ok)
        \/ MapStores(t)
        \/ UnmapChecks(t)
        \/ \E ok \in BOOLEAN : UnmapMunmaps(t, ok)
        \/ UnmapClears(t)

\* One GpuAllocated and the threads that share it.
ThreadSpec == ThreadInit /\ [][ThreadNext]_vars

(***************************************************************************)
(* The error values of the kernel wrappers.                                *)
(***************************************************************************)
\* Errno::UnknownErrno, the value the wrappers return for a failed ioctl.
UnknownErrno == 0

\* The largest error code the kernel reports.
MaxErrno == 133

\* The error codes of the kernel.
Errnos == 1..MaxErrno

\* Errno::from_i32: the code itself when it is one, else UnknownErrno.
from_i32(n) == IF n \in Errnos THEN n ELSE UnknownErrno

\* What the function of ioctl_readwrite!/ioctl_write_ptr! returns for the
\* return value ret of ioctl(2) with errno set to e: Err(e) for -1, else
\* Ok(ret).
ioctl_res(ret, e) ==
    IF ret = -1 THEN [is_err |-> TRUE, errno |-> e, value |-> 0]
    ELSE [is_err |-> FALSE, errno |-> UnknownErrno, value |-> ret]

\* The tail shared by the ioctl wrappers: Err(UnknownErrno) for a failed
\* ioctl, Ok for a return value of 0, Err(from_i32(ret)) for any other.
ioctl_wrapper(res) ==
    IF res.is_err THEN [result |-> "Err", errno |-> UnknownErrno]
    ELSE IF res.value = 0 THEN [result |-> "Ok", errno |-> UnknownErrno]
    ELSE [result |-> "Err", errno |-> from_i32(res.value)]

\* NvMap::map and NvMap::unmap: the error of mmap/munmap keeps its code.
mmap_wrapper(res) ==
    IF res.is_err THEN [result |-> "Err", errno |-> res.errno]
    ELSE [result |-> "Ok", errno |-> UnknownErrno]

\* The error code of an ioctl the driver does not implement.
ENOTTY == 25

\* NvHostChannel::set_timeslice, called by set_priority: a failure with
\* ENOTTY is answered with Ok(()), any other as in ioctl_wrapper.
timeslice_wrapper(res) ==
    IF res.is_err /\ res.errno = ENOTTY THEN [result |-> "Ok", errno |-> UnknownErrno]
    ELSE ioctl_wrapper(res)

\* The wrappers that end in ioctl_wrapper.
IoctlWrappers ==
    {"create", "allocate", "cache_maintenance", "map_buffer_external",
     "unmap_buffer", "submit_gpfifo"}

\* The wrappers of mmap and munmap.
MmapWrappers == {"map", "unmap"}

\* The wrapper of the timeslice request.
TimesliceWrappers == {"set_timeslice"}

\* Every wrapper of a kernel call.
Wrappers == IoctlWrappers \cup MmapWrappers \cup TimesliceWrappers

\* What the wrapper op makes of what the kernel returned.
wrapper_result(op, ret, e) ==
    IF op \in IoctlWrappers THEN ioctl_wrapper(ioctl_res(ret, e))
    ELSE IF op \in TimesliceWrappers THEN timeslice_wrapper(ioctl_res(ret, e))
    ELSE mmap_wrapper(ioctl_res(ret, e))

\* A call of a wrapper that returned: its value is the kernel's return value
\* and errno with the error code of the wrapper's result.
WrapperReturned(op, ret, e) ==
    LET r == wrapper_result(op, ret, e)
    IN ReturnedValue(op, r.result, Some([ret |-> ret, errno |-> e, code |-> r.errno]))

ErrnoInit == AllocInit

\* The kernel fails the first call of the wrapper op with the error code e.
KernelFails(op, e) ==
    /\ last.op = "none"
    /\ last' = WrapperReturned(op, -1, e)
    /\ UNCHANGED <<allocs, handles, in_process, pc>>
    /\ AllocUnchanged

\* The kernel call of the wrapper op returns ret, which is not -1.
KernelReturns(op, ret) ==
    /\ last.op = "none"
    /\ ret # -1
    /\ op \in MmapWrappers => ret = 0
    /\ last' = WrapperReturned(op, ret, UnknownErrno)
    /\ UNCHANGED <<allocs, handles, in_process, pc>>
    /\ AllocUnchanged

ErrnoNext ==
    \E op \in Wrappers :
        \/ \E e \in Errnos : KernelFails(op, e)
        \/ \E ret \in {0, 1, MaxErrno, MaxErrno + 1} : KernelReturns(op, ret)

\* One call of a wrapper, with every outcome of the kernel.
ErrnoSpec == ErrnoInit /\ [][ErrnoNext]_vars

(***************************************************************************)
(* initialize_command_stream.                                              *)
(***************************************************************************)
\* enum ClassId
ClassId ==
    {"MAXWELL_B_3D", "MAXWELL_B_COMPUTE", "INLINE_TO_MEMORY", "MAXWELL_A_2D",
     "MAXWELL_B_DMA"}

\* impl From<ClassId> for u32
ClassU32(class_id) ==
    CASE class_id = "MAXWELL_B_3D" -> 45463
      [] class_id = "MAXWELL_B_COMPUTE" -> 45504
      [] class_id = "INLINE_TO_MEMORY" -> 41280
      [] class_id = "MAXWELL_A_2D" -> 36909
      [] class_id = "MAXWELL_B_DMA" -> 45237

\* One bind command of setup_channel: method 0 on the sub-channel, with the
\* class as its one argument.
bind_channel_command(sub, class_id) ==
    push_argument(new(0, sub, "Increasing"), U32(ClassU32(class_id)))

\* setup_channel: the five pushes, in order; the wait_idle that ends it finds
\* no fence and returns at once.
setup_channel(list) ==
    list \o <<bind_channel_command("ThreeD", "MAXWELL_B_3D"),
              bind_channel_command("Compute", "MAXWELL_B_COMPUTE"),
              bind_channel_command("InlineToMemory", "INLINE_TO_MEMORY"),
              bind_channel_command("TwoD", "MAXWELL_A_2D"),
              bind_channel_command("DirectMemoryAccess", "MAXWELL_B_DMA")>>

\* initialize_command_stream: CommandStream::new, then setup_channel.
BindInit ==
    /\ command_list = setup_channel(<<>>)
    /\ fifo = GpFifoQueue_new
    /\ in_process = <<>>
    /\ allocs = <<>>
    /\ submissions = <<>>
    /\ completed = <<>>
    /\ pc = "ready"
    /\ poll_fd = None
    /\ last = Returned("initialize_command_stream", "Ok")
    /\ unwaited = <<>>
    /\ cmd = None
    /\ vec = None
    /\ handles = <<>>
    /\ threads = <<>>
    /\ instances = Initialized

\* A stream of initialize_command_stream, its application and the hardware.
BindSpec == BindInit /\ [][Next]_vars

(***************************************************************************)
(* GpuBox.                                                                 *)
(***************************************************************************)
\* The values boxed: arrays of two words, as main boxes [0xCAFE_BABE; 2].
BoxValues == [1..2 -> CacheWords]

\* How GpuBox::new ends: at the step of GpuAllocated::new that fails, at the
\* mmap of deref_mut ("map"), at the ioctl of flush ("cache"), or "ok".
BoxOutcomes == AllocOutcomes \cup {"map", "cache"}

\* A constructor that unmaps the host view before it flushes.
GpuBox_new_unmapped(n, h, x, address, stage) ==
    LET created == [GpuAllocated_new(n, Len(x) * WORD_BYTES, FLUSH_ALIGN)
                       EXCEPT !.handle.raw_handle = h]
        written == copy_from_slice(nvmap_map_at(created, address), <<>> \o x)
    IN  CASE stage = "map" -> created
          [] stage = "cache" -> written
          [] OTHER -> GpuAllocated_flush(nvmap_unmap(written))

\* GpuBox::new(x) once GpuAllocated::new succeeded, as the stage that fails
\* (or the return) finds the allocation n of handle h: `*res = x` maps the
\* handle at address and stores x, then res.flush().
GpuBox_new(n, h, x, address, stage) ==
    LET created == [GpuAllocated_new(n, Len(x) * WORD_BYTES, FLUSH_ALIGN)
                       EXCEPT !.handle.raw_handle = h]
        written == copy_from_slice(nvmap_map_at(created, address), <<>> \o x)
    IN  CASE stage = "map" -> created
          [] stage = "cache" -> written
          [] OTHER -> GpuAllocated_flush(written)

BoxInit == AllocInit

\* GpuBox::new(x).  A failure of GpuAllocated::new, of the mmap or of the
\* flush is an expect that panics; from the mmap on the unwinding drops the
\* allocation (dropped: how that drop ends), and a drop that panics while
\* unwinding aborts the process.
GpuBoxNew(x, address, outcome, dropped) ==
    LET n == Len(allocs) + 1
        h == Len(handles) + 1
        made == AllocKernel(handles, Len(x) * WORD_BYTES, FLUSH_ALIGN,
                            IF outcome \in AllocOutcomes THEN outcome ELSE "ok")
        box == GpuBox_new(n, h, x, address, outcome)
    IN  /\ pc = "ready"
        /\ Len(handles) < MaxHandles
        /\ outcome \in BoxOutcomes
        /\ address \notin MappedAddresses(handles, allocs)
        /\ CASE outcome = "ok" ->
                   /\ dropped = "ok"
                   /\ allocs' = Append(allocs, box)
                   /\ in_process' = Append(in_process, n)
                   /\ handles' = KernelMmap(made, h)
                   /\ pc' = pc
                   /\ last' = ReturnedValue("GpuBox::new", "Ok", Some(<<>> \o x))
             [] outcome \in {"map", "cache"} ->
                   /\ DropPossible(box, dropped)
                   /\ allocs' = Append(allocs, GpuAllocated_drop(box, dropped))
                   /\ in_process' = in_process
                   /\ handles' = IF outcome = "cache" /\ dropped = "unmap_failed"
                                  THEN KernelMmap(made, h) ELSE made
                   /\ pc' = IF dropped = "ok" THEN "panicked" ELSE "aborted"
                   /\ last' = ReturnedValue("GpuBox::new", "panic", Some(<<>> \o x))
             [] OTHER ->
                   /\ dropped = "ok"
                   /\ handles' = made
                   /\ UNCHANGED <<allocs, in_process>>
                   /\ pc' = "panicked"
                   /\ last' = ReturnedValue("GpuBox::new", "panic", Some(<<>> \o x))
        /\ AllocUnchanged

BoxNext ==
    \/ \E x \in BoxValues, address \in MmapAddresses, outcome \in BoxOutcomes,
             dropped \in DropOutcomes : GpuBoxNew(x, address, outcome, dropped)
    \/ \E id \in 1..MaxHandles, outcome \in DropOutcomes : DropAlloc(id, outcome)

\* The boxes of an application and the memory manager.
BoxSpec == BoxInit /\ [][BoxNext]_vars

(***************************************************************************)
(* The process-wide device handles.                                        *)
(***************************************************************************)
\* Number of calls of initialize().
MaxInits == 3

\* initialize() with the memory manager set up before the control handle.
InitOrder_memory_first ==
    <<"init_nvmap", "init_nvhost_gpu_control", "init_address_space">>

\* initialize(): the three setup functions, in the order it calls them.
InitOrder == <<"init_nvhost_gpu_control", "init_nvmap", "init_address_space">>

\* as_mut().expect(..): the accessors and the pointer each one reads.
Accessors == {"get_nvhost_gpu_ctrl", "get_nvmap", "get_as"}

\* The pointer the accessor reads.
Instance(st, accessor) ==
    CASE accessor = "get_nvhost_gpu_ctrl" -> st.NVHOST_CTRL_INSTANCE
      [] accessor = "get_nvmap" -> st.NVMAP_INSTANCE
      [] accessor = "get_as" -> st.NVAS_INSTANCE

\* The accessor panics on a null pointer.
accessor_panics(st, accessor) == Instance(st, accessor) = None

\* The setup function needs the control handle: init_address_space reads it
\* through get_nvhost_gpu_ctrl().
setup_panics(st, setup) ==
    setup = "init_address_space" /\ accessor_panics(st, "get_nvhost_gpu_ctrl")

\* The setup function succeeding in the n-th call of initialize(): a new
\* object is leaked and the pointer set to it.
setup_stores(st, setup, n) ==
    CASE setup = "init_nvhost_gpu_control" -> [st EXCEPT !.NVHOST_CTRL_INSTANCE = Some(n)]
      [] setup = "init_nvmap" -> [st EXCEPT !.NVMAP_INSTANCE = Some(n)]
      [] setup = "init_address_space" ->
            [st EXCEPT !.NVAS_INSTANCE =
                Some([id |-> n, ctrl |-> st.NVHOST_CTRL_INSTANCE[1]])]

\* The position in initialize() of the setup function the thread is at.
SetupAt == CHOOSE k \in 1..Len(InitOrder) : InitOrder[k] = pc

\* What the steps of the process-wide handles leave alone.
InstancesUnchanged ==
    UNCHANGED <<command_list, fifo, in_process, allocs, submissions, completed, poll_fd,
                cmd, vec, handles, threads>>

\* The process starts: every pointer is null.  unwaited counts the calls of
\* initialize().
InstancesInit ==
    /\ command_list = <<>>
    /\ fifo = GpFifoQueue_new
    /\ in_process = <<>>
    /\ allocs = <<>>
    /\ submissions = <<>>
    /\ completed = <<>>
    /\ pc = "ready"
    /\ poll_fd = None
    /\ last = ReturnedValue("none", "Ok", None)
    /\ unwaited = <<>>
    /\ cmd = None
    /\ vec = None
    /\ handles = <<>>
    /\ threads = <<>>
    /\ instances = [NVHOST_CTRL_INSTANCE |-> None, NVMAP_INSTANCE |-> None,
                    NVAS_INSTANCE |-> None]

\* initialize() is called.
InitializeCalled ==
    /\ pc = "ready"
    /\ Len(unwaited) < MaxInits
    /\ pc' = InitOrder[1]
    /\ unwaited' = Append(unwaited, 0)
    /\ last' = ReturnedValue("initialize", "blocked", None)
    /\ UNCHANGED instances
    /\ InstancesUnchanged

\* One setup function of initialize(): it panics in an accessor, fails (the
\* `?` returns the error) or stores its pointer and the next one follows.
InitializeSetup(ok) ==
    /\ pc \in {InitOrder[k] : k \in 1..Len(InitOrder)}
    /\ IF setup_panics(instances, pc)
       THEN /\ pc' = "panicked"
            /\ last' = ReturnedValue("initialize", "panic", None)
            /\ UNCHANGED instances
       ELSE IF ok
       THEN /\ instances' = setup_stores(instances, pc, Len(unwaited))
            /\ pc' = IF SetupAt < Len(InitOrder) THEN InitOrder[SetupAt + 1] ELSE "open"
            /\ UNCHANGED last
       ELSE /\ pc' = "ready"
            /\ last' = ReturnedValue("initialize", "Err", None)
            /\ UNCHANGED instances
    /\ UNCHANGED unwaited
    /\ InstancesUnchanged

\* The rest of initialize(): the three accessors, then open_tsg,
\* open_channel and get_characteristics, which succeed or return an error.
InitializeOpens(ok) ==
    /\ pc = "open"
    /\ IF \E accessor \in Accessors : accessor_panics(instances, accessor)
       THEN /\ pc' = "panicked"
            /\ last' = ReturnedValue("initialize", "panic", None)
       ELSE /\ pc' = "ready"
            /\ last' = ReturnedValue("initialize", IF ok THEN "Ok" ELSE "Err", None)
    /\ UNCHANGED <<instances, unwaited>>
    /\ InstancesUnchanged

\* get_nvhost_gpu_ctrl, get_nvmap or get_as called by the application.
Get(accessor) ==
    /\ pc = "ready"
    /\ IF accessor_panics(instances, accessor)
       THEN /\ pc' = "panicked"
            /\ last' = ReturnedValue(accessor, "panic", None)
       ELSE /\ pc' = pc
            /\ last' = ReturnedValue(accessor, "Ok", Instance(instances, accessor))
    /\ UNCHANGED <<instances, unwaited>>
    /\ InstancesUnchanged

InstancesNext ==
    \/ InitializeCalled
    \/ \E ok \in BOOLEAN : InitializeSetup(ok)
    \/ \E ok \in BOOLEAN : InitializeOpens(ok)
    \/ \E accessor \in Accessors : Get(accessor)

\* The process-wide pointers, initialize() and the accessors.
InstancesSpec == InstancesInit /\ [][InstancesNext]_vars

(***************************************************************************)
(* The requests of NVMAP_IOC_CACHE.                                        *)
(***************************************************************************)
CACHE_OPERATION_WRITE_BACK == 0

CACHE_OPERATION_INVALIDATE == 1

CACHE_OPERATION_WRITE_BACK_INVALIDATE == 2

\* A flush that asks for a write-back only.
maintenance_operation_write_back(op) ==
    IF op = "flush" THEN CACHE_OPERATION_WRITE_BACK ELSE CACHE_OPERATION_INVALIDATE

\* GpuAllocated::flush goes to NvMap::writeback_invalidate,
\* GpuAllocated::invalidate to NvMap::invalidate.
maintenance_operation(op) ==
    IF op = "flush" THEN CACHE_OPERATION_WRITE_BACK_INVALIDATE
    ELSE CACHE_OPERATION_INVALIDATE

\* NvMap::cache_maintenance(handle, offset, size, operation): the fields
\* (address, handle, length, operation) of each HandleCacheMaintenance it
\* hands to NVMAP_IOC_CACHE, one after the other; none when the handle holds
\* no address.
cache_maintenance(handle, offset, size, operation) ==
    IF handle.mapped_address = None THEN <<>>
    ELSE <<handle.mapped_address[1] + offset, handle.raw_handle, size, operation>>

MaintenanceInit == AllocInit

\* GpuAllocated::flush or GpuAllocated::invalidate (op) on the live
\* allocation id: get_nvmap().writeback_invalidate(&handle, 0, handle.size())
\* or get_nvmap().invalidate(&handle, 0, handle.size()).  ok: the kernel
\* agrees to the request, when there is one.
Maintenance(op, id, ok) ==
    LET a == allocs[id]
        requests == cache_maintenance(a.handle, 0, a.handle.size,
                                      maintenance_operation(op))
    IN  /\ pc = "ready"
        /\ \E i \in 1..Len(in_process) : in_process[i] = id
        /\ requests # <<>> \/ ok
        /\ allocs' = IF ~ok THEN allocs
                      ELSE IF op = "flush"
                      THEN [allocs EXCEPT ![id] = GpuAllocated_flush(a)]
                      ELSE [allocs EXCEPT ![id] = GpuAllocated_invalidate(a)]
        /\ last' = ReturnedValue(op, IF ok THEN "Ok" ELSE "Err", requests)
        /\ UNCHANGED <<pc, in_process, handles>>
        /\ AllocUnchanged

MaintenanceNext ==
    \/ \E user_size \in AllocSizes : Allocate(user_size, FLUSH_ALIGN, "ok")
    \/ \E id \in 1..MaxHandles, address \in MmapAddresses, ok \in BOOLEAN :
           HostView(id, "map_mut", address, ok)
    \/ \E id \in 1..MaxHandles, ok \in BOOLEAN : Unmap(id, ok)
    \/ \E id \in 1..MaxHandles, ok \in BOOLEAN, op \in {"flush", "invalidate"} :
           Maintenance(op, id, ok)

\* GpuAllocated values and the cache requests made for them.
MaintenanceSpec == MaintenanceInit /\ [][MaintenanceNext]_vars

(***************************************************************************)
(* GpFifoQueue::append over 64-bit addresses and counts.                   *)
(***************************************************************************)
\* Bits of a u64 gpu_address: inside the 42-bit field (0, 12, 41) and above
\* it (42, 63).
AddressBits == {0, 12, 41, 42, 63}

\* Bits of a u64 command_count: inside the 22-bit field (0, 21) and above it
\* (22, 63).
CountBits == {0, 21, 22, 63}

\* The fields of an entry, as u64: bits 0..41 and bits 42..63.
AddressField(e) == [i \in 0..63 |-> IF i <= 41 THEN e[i] ELSE 0]

CountField(e) == [i \in 0..63 |-> IF i <= 21 THEN e[i + 42] ELSE 0]

\* w is below 2^n.
Below(w, n) == \A i \in n..63 : w[i] = 0

\* A new ring and the pair its holder is about to append.
EntryInit ==
    /\ command_list = <<>>
    /\ fifo = GpFifoQueue_new
    /\ in_process = <<>>
    /\ allocs = <<>>
    /\ submissions = <<>>
    /\ completed = <<>>
    /\ pc = "ready"
    /\ poll_fd = None
    /\ \E A \in SUBSET AddressBits, C \in SUBSET CountBits :
           last = ReturnedValue("new", "Ok", <<U64Bits(A), U64Bits(C)>>)
    /\ unwaited = <<>>
    /\ cmd = None
    /\ vec = None
    /\ handles = <<>>
    /\ threads = <<>>
    /\ instances = Initialized

\* GpFifoQueue::append(gpu_address, command_count, _flags) with the pair.
EntryAppend ==
    /\ pc = "ready"
    /\ last.op = "new"
    /\ IF AppendPanics(fifo)
       THEN /\ pc' = "panicked"
            /\ UNCHANGED fifo
       ELSE /\ fifo' = append_entry(fifo, GpFifoRawOffset(last.value[1], last.value[2]))
            /\ UNCHANGED pc
    /\ last' = [last EXCEPT !.op = "append"]
    /\ UNCHANGED <<command_list, in_process, allocs, submissions, completed, poll_fd,
                   unwaited, cmd, vec, handles, threads, instances>>

EntryNext == EntryAppend

\* One append of every pair of the bounded sets.
EntrySpec == EntryInit /\ [][EntryNext]_vars

(***************************************************************************)
(* Properties.                                                             *)
(***************************************************************************)
\* The hardware has yet to finish a batch with an entry for the buffer a.
HardwareMayRead(a) ==
    \E k \in 1..Len(submissions) :
        /\ ~submissions[k].done
        /\ \E i \in 1..Len(submissions[k].entries) :
               EntryAddress(submissions[k].entries[i]) = a.gpu_address

\* C1: a command buffer handed to the kernel is not destroyed (its GPU range
\* unmapped) before the batch that references it has completed.
C1_BufferOutlivesItsBatch ==
    \A id \in 1..Len(allocs) : HardwareMayRead(allocs[id]) => allocs[id].gpu_mapped

\* The fence id of the latest accepted batch of w, 0 when there is none.
LastAccepted(w) ==
    LET S == {i \in 1..Len(w) : w[i] # 0}
    IN  IF S = {} THEN 0 ELSE w[CHOOSE i \in S : \A j \in S : j <= i]

\* The batch a step hands to the kernel.
Accepted == Len(submissions') = Len(submissions) + 1

NewBatch == submissions'[Len(submissions')]

\* C2: every submit made while an earlier accepted batch has not been waited
\* on passes that batch's fence to the kernel as its wait precondition, and
\* the fence-wait flag is set exactly when a fence is passed.
C2_SubmitWaitsForEarlierBatch ==
    [][Accepted =>
          /\ LastAccepted(unwaited) # 0 =>
                 NewBatch.fence = LastAccepted(unwaited) /\ MustWaitFor(NewBatch)
          /\ MustWaitFor(NewBatch) <=> NewBatch.fence # NO_FENCE_ID]_vars

\* The last two submits of w were both accepted.
BackToBack(w) == Len(w) >= 2 /\ w[Len(w)] # 0 /\ w[Len(w) - 1] # 0

\* Batch j finished before batch k.
FinishedBefore(j, k) ==
    \E a, b \in 1..Len(completed) : a < b /\ completed[a] = j /\ completed[b] = k

\* C3: after two flushes back to back, wait_idle waits on the fence of the
\* second and returns only after both batches completed, the first before
\* the second.
C3_WaitIdleObservesBothBatches ==
    (last.op = "wait_idle" /\ BackToBack(last.waited)) =>
        LET first == last.waited[Len(last.waited) - 1]
            second == last.waited[Len(last.waited)]
        IN  /\ pc = "wait_idle" => poll_fd = Some(second)
            /\ last.result = "Ok" =>
                   /\ submissions[first].done
                   /\ submissions[second].done
                   /\ FinishedBefore(first, second)

C3_Witness ==
    /\ last.op = "wait_idle"
    /\ last.result = "Ok"
    /\ BackToBack(last.waited)
    /\ Len(in_process) = 2

\* The entries of the batch b that point at the buffer a.
EntriesFor(b, a) ==
    {i \in 1..Len(b.entries) : EntryAddress(b.entries[i]) = a.gpu_address}

\* C4: a failed flush leaves the cursor where it was, a successful one made
\* its batch exactly one ring entry handed to the kernel.
C4_FlushRegistersAllOrNothing ==
    [][Flush =>
          /\ last'.result = "Err" => fifo'.position = fifo.position
          /\ last'.result = "Ok" =>
                 /\ Accepted
                 /\ Cardinality(EntriesFor(NewBatch, allocs'[Len(allocs')])) = 1]_vars

\* C5: flush with nothing pending allocates nothing, appends nothing, submits
\* nothing, leaves fence and in-flight list alone and returns success.
C5_EmptyFlushIsNoOp ==
    [][(Flush /\ command_list = <<>>) =>
          /\ UNCHANGED <<fifo, in_process, allocs, submissions>>
          /\ last'.result = "Ok"]_vars

\* A step that is a call of append.
AppendCalled == last'.op = "append" /\ (fifo' # fifo \/ pc' # pc)

\* C6: append succeeds while the cursor is below the capacity, so capacity
\* times from cursor 0; the next call panics and writes nothing; a successful
\* submit puts the cursor back to 0.
C6_AppendUpToCapacity ==
    /\ [](fifo.position <= GPFIFO_QUEUE_SIZE
          /\ DOMAIN fifo.queue = 0..(GPFIFO_QUEUE_SIZE - 1))
    /\ [][/\ AppendCalled =>
                 IF fifo.position < GPFIFO_QUEUE_SIZE
                 THEN /\ last'.result = "Ok"
                      /\ pc' = "ready"
                      /\ fifo'.position = fifo.position + 1
                      /\ \A i \in DOMAIN fifo.queue :
                             i # fifo.position => fifo'.queue[i] = fifo.queue[i]
                 ELSE /\ last'.result = "panic"
                      /\ pc' = "panicked"
                      /\ fifo' = fifo
          /\ Accepted => fifo'.position = 0]_vars

C6_Witness ==
    /\ last.op = "append"
    /\ last.result = "panic"
    /\ fifo.position = GPFIFO_QUEUE_SIZE
    /\ Len(submissions) >= 1

\* C7: at most one fence is tracked, and after a successful submit it is the
\* fence the kernel returned for that submit, with the cursor at zero.
C7_SubmitStoresNewFence ==
    /\ Len(fifo.waiting_fence) <= 1
    /\ (last.op = "submit" /\ last.result = "Ok") =>
           /\ fifo.waiting_fence = Some(Len(submissions))
           /\ fifo.position = 0

C7_Witness ==
    /\ last.op = "submit"
    /\ last.result = "Ok"
    /\ Len(submissions) = 2
    /\ MustWaitFor(submissions[2])
    /\ fifo.waiting_fence = Some(2)

RECURSIVE Concatenated(_)
\* The words of the commands, in the order of the list.
Concatenated(cmds) ==
    IF cmds = <<>> THEN <<>>
    ELSE Concatenated(SubSeq(cmds, 1, Len(cmds) - 1)) \o into_vec(cmds[Len(cmds)])

\* C9: a successful flush hands the kernel one new buffer holding the words
\* of the pending commands in push order, as one ring entry whose word count
\* is the number of words, the buffer's user size being 4 times that.
C9_FlushHandsConcatenation ==
    [][(last'.op = "flush" /\ last'.result = "Ok" /\ Flush) =>
          LET a == allocs'[Len(allocs')]
              expected == Concatenated(command_list)
              mine == EntriesFor(NewBatch, a)
          IN  /\ Accepted
              /\ Len(allocs') = Len(allocs) + 1
              /\ a.mem = expected
              /\ a.user_size = WORD_BYTES * Len(expected)
              /\ Cardinality(mine) = 1
              /\ \A i \in mine : EntryCount(NewBatch.entries[i]) = Len(expected)
              /\ in_process' = Append(in_process, Len(allocs'))]_vars

C9_Witness ==
    /\ last.op = "flush"
    /\ last.result = "Ok"
    /\ Len(allocs) >= 1
    /\ Len(allocs[Len(allocs)].mem) = 4

\* C10: into_vec of an Inline command returns one word, whose immediate
\* field (bits 26:16) is the immediate the command was built with.
C10_InlineKeepsImmediate ==
    (vec # None /\ cmd[1].command.submission_mode = "Inline") =>
        /\ Len(vec[1]) = 1
        /\ inline_arguments(vec[1][1]) = cmd[1].inputs.immediate

\* The tag of each submission mode, as the hardware reads it.
ModeTag ==
    [IncreasingOld |-> 0, Increasing |-> 1, NonIncreasingOld |-> 2,
     NonIncreasing |-> 3, Inline |-> 4, IncreasingOnce |-> 5]

\* The bits of the header outside the field msb..lsb are the same after the step.
OthersKept(msb, lsb) ==
    \A i \in 0..31 :
        (i < lsb \/ i > msb) => cmd'[1].command.entry[i] = cmd[1].command.entry[i]

\* C11: the header built by new_raw holds the method in bits 12:0, the
\* sub-channel in bits 15:13 and the mode tag in bits 31:29 and nothing else,
\* so the three fields read back as the inputs; setting one field afterwards
\* stores the value and leaves every other bit of the word unchanged.
C11_HeaderRoundTrips ==
    /\ [](last.op = "new_raw" =>
             LET e == cmd[1].command.entry
                 in == cmd[1].inputs
             IN  /\ BitsValue(e, 12, 0) = in.method
                 /\ BitsValue(e, 15, 13) = in.sub_channel
                 /\ BitsValue(e, 31, 29) = ModeTag[in.submission_mode]
                 /\ method(e) = in.method
                 /\ sub_channel(e) = in.sub_channel
                 /\ submission_mode(e) = ModeTag[in.submission_mode]
                 /\ \A i \in 16..28 : e[i] = 0)
    /\ [][/\ \A v \in HdrMethods :
                 SetMethod(v) => method(cmd'[1].command.entry) = v /\ OthersKept(12, 0)
          /\ \A v \in HdrSubChannels :
                 SetSubChannel(v) =>
                     sub_channel(cmd'[1].command.entry) = v /\ OthersKept(15, 13)
          /\ \A v \in HdrSubChannels :
                 SetSubmissionMode(v) =>
                     submission_mode(cmd'[1].command.entry) = v /\ OthersKept(31, 29)
          /\ \A v \in HdrCounts :
                 SetArgumentCount(v) =>
                     argument_count(cmd'[1].command.entry) = v /\ OthersKept(26, 16)]_vars

C11_Witness ==
    /\ last.op = "set_sub_channel"
    /\ cmd[1].inputs.method = 8191
    /\ cmd[1].inputs.submission_mode = "IncreasingOnce"
    /\ method(cmd[1].command.entry) = 8191
    /\ sub_channel(cmd[1].command.entry) = 0
    /\ cmd[1].inputs.sub_channel = 7

\* The id of each sub-channel.
SubChannelTag ==
    [ThreeD |-> 0, Compute |-> 1, InlineToMemory |-> 2, TwoD |-> 3,
     DirectMemoryAccess |-> 4]

\* C16: the header of a command holds in bits 31:29 the tag 0 for
\* IncreasingOld, 1 Increasing, 2 NonIncreasingOld, 3 NonIncreasing, 4 Inline,
\* 5 IncreasingOnce and in bits 15:13 the id 0 for ThreeD, 1 Compute,
\* 2 InlineToMemory, 3 TwoD, 4 DirectMemoryAccess; distinct modes get
\* distinct tags and distinct sub-channels distinct ids.
C16_TagsAsTheHardwareReadsThem ==
    /\ last.op = "new" =>
           /\ BitsValue(cmd[1].command.entry, 31, 29) = ModeTag[cmd[1].inputs.submission_mode]
           /\ BitsValue(cmd[1].command.entry, 15, 13) = SubChannelTag[cmd[1].inputs.sub_channel]
    /\ last.op = "new_raw" =>
           BitsValue(cmd[1].command.entry, 31, 29) = ModeTag[cmd[1].inputs.submission_mode]
    /\ \A a, b \in CommandSubmissionMode :
           a # b => SubmissionModeId(a) # SubmissionModeId(b)
    /\ \A a, b \in SubChannelId : a # b => SubChannelU32(a) # SubChannelU32(b)

C16_Witness ==
    /\ last.op = "new"
    /\ cmd[1].inputs.submission_mode = "IncreasingOnce"
    /\ cmd[1].inputs.sub_channel = "DirectMemoryAccess"
    /\ submission_mode(cmd[1].command.entry) = 5
    /\ sub_channel(cmd[1].command.entry) = 4

\* The arguments of the command before and after a step.
Args == cmd[1].command.arguments

ArgsAfter == cmd'[1].command.arguments

\* (word0 << 32) | word1
Reassembled(word0, word1) ==
    [i \in 0..63 |-> IF i >= 32 THEN word0[i - 32] ELSE word1[i]]

\* C12: push_address appends exactly two words, the high half of the address
\* and then the low half, which reassemble to the address; on an Inline
\* command it fails and appends nothing.
C12_PushAddressHighThenLow ==
    [][\A address \in ArgAddresses :
          PushAddress(address) =>
              IF cmd[1].command.submission_mode = "Inline"
              THEN last'.result = "panic" /\ ArgsAfter = Args
              ELSE /\ last'.result = "Ok"
                   /\ Len(ArgsAfter) = Len(Args) + 2
                   /\ SubSeq(ArgsAfter, 1, Len(Args)) = Args
                   /\ ArgsAfter[Len(Args) + 1] = [i \in 0..31 |-> address[i + 32]]
                   /\ ArgsAfter[Len(Args) + 2] = [i \in 0..31 |-> address[i]]
                   /\ Reassembled(ArgsAfter[Len(Args) + 1], ArgsAfter[Len(Args) + 2])
                          = address]_vars

C12_Witness ==
    /\ last.op = "push_address"
    /\ last.result = "Ok"
    /\ Len(Args) = 3
    /\ Args[1] = U32(7)
    /\ Args[2] = [i \in 0..31 |-> IF i \in {1, 30} THEN 1 ELSE 0]
    /\ Args[3] = U32(1)

\* Byte j (from 0) of the little-endian bytes of a word.
ByteOf(word, j) == BitsValue(word, 8 * j + 7, 8 * j)

\* ceil(n / 4)
CeilQuarter(n) == CHOOSE k \in 0..n : 4 * k >= n /\ (k = 0 \/ 4 * (k - 1) < n)

\* C13: push_inlined_buffer appends exactly ceil(len/4) words, byte j of
\* word i being byte 4i+j of the input and zero beyond its end; nothing for
\* an empty input; the appended words read back as bytes give the input.
C13_InlinedBufferLittleEndian ==
    [][(last'.op = "push_inlined_buffer" /\ last'.result = "Ok"
          /\ PushInlinedBuffer(cmd'[1].inputs)) =>
              LET data == cmd'[1].inputs
                  n == CeilQuarter(Len(data))
                  word(i) == ArgsAfter[Len(Args) + 1 + i]
              IN  /\ Len(ArgsAfter) = Len(Args) + n
                  /\ SubSeq(ArgsAfter, 1, Len(Args)) = Args
                  /\ data = <<>> => ArgsAfter = Args
                  /\ \A i \in 0..(n - 1), j \in 0..3 :
                         ByteOf(word(i), j) =
                             IF 4 * i + j + 1 <= Len(data) THEN data[4 * i + j + 1] ELSE 0
                  /\ [k \in 1..Len(data) |-> ByteOf(word((k - 1) \div 4), (k - 1) % 4)]
                         = data]_vars

C13_Witness ==
    /\ last.op = "push_inlined_buffer"
    /\ last.result = "Ok"
    /\ Len(Args) = 2
    /\ ByteOf(Args[1], 0) = 1
    /\ ByteOf(Args[1], 3) = 4
    /\ ByteOf(Args[2], 1) = 6
    /\ ByteOf(Args[2], 2) = 0
    /\ ByteOf(Args[2], 3) = 0

\* C14: into_vec returns the header followed by the arguments in push
\* order, 1 + n words, the header being the command's with the count field
\* (bits 26:16) equal to n, for every number n of arguments pushed.
C14_IntoVecCountsArguments ==
    [][ArgIntoVec =>
          LET out == vec'[1]
              n == Len(Args)
          IN  /\ Len(out) = 1 + n
              /\ SubSeq(out, 2, 1 + n) = Args
              /\ BitsValue(out[1], 26, 16) = n
              /\ \A i \in 0..31 :
                     (i < 16 \/ i > 26) => out[1][i] = cmd[1].command.entry[i]]_vars

\* C15: push_argument on an Inline command fails and the argument list stays
\* empty; on a command of any other mode it appends the word at the end of
\* the argument list and leaves the header unchanged.
C15_PushArgumentRejectsInline ==
    /\ [](cmd[1].command.submission_mode = "Inline" => Args = <<>>)
    /\ [][\A argument \in ArgWords :
              PushArgument(argument) =>
                  IF cmd[1].command.submission_mode = "Inline"
                  THEN /\ last'.result = "panic"
                       /\ pc' = "panicked"
                       /\ cmd'[1].command = cmd[1].command
                  ELSE /\ last'.result = "Ok"
                       /\ ArgsAfter = Append(Args, argument)
                       /\ cmd'[1].command.entry = cmd[1].command.entry
                       /\ cmd'[1].command.submission_mode
                              = cmd[1].command.submission_mode]_vars

C15_Witness ==
    /\ last.op = "push_argument"
    /\ last.result = "panic"
    /\ cmd[1].command.submission_mode = "Inline"
    /\ Args = <<>>

\* The address the handle of the allocation id holds, or None.
AddressOf(id) == allocs[id].handle.mapped_address

\* The allocations the process holds.
LiveAllocs == {in_process[i] : i \in 1..Len(in_process)}

\* C17: a GpuAllocation keeps at most one live mapping in the process; a
\* host-view call on a mapped handle does no new kernel mapping and returns
\* the address the handle holds; unmap on an unmapped handle changes nothing;
\* no call changes gpu_address() or user_size().
C17_OneMappingPerHandle ==
    /\ [](\A h \in 1..Len(handles) : handles[h].mmaps <= 1)
    /\ [][/\ \A id \in 1..Len(allocs) :
               /\ allocs'[id].gpu_address = allocs[id].gpu_address
               /\ allocs'[id].user_size = allocs[id].user_size
          /\ \A id \in LiveAllocs :
               /\ (/\ AddressOf(id) # None
                   /\ last'.op \in HostViews
                   /\ \E address \in MmapAddresses, ok \in BOOLEAN :
                         HostView(id, last'.op, address, ok))
                  => /\ handles' = handles
                     /\ last'.result = "Ok"
                     /\ last'.value = AddressOf(id)
                     /\ allocs'[id].handle.mapped_address = AddressOf(id)
               /\ (/\ AddressOf(id) = None
                   /\ last'.op = "unmap"
                   /\ \E ok \in BOOLEAN : Unmap(id, ok))
                  => /\ handles' = handles
                     /\ allocs' = allocs
                     /\ last'.result = "Ok"]_vars

\* C17 witness: after map, unmap, map on one allocation and a further
\* host-view call on it, the handle holds the second address and the kernel
\* one mapping, next to a second allocation that was never mapped.
C17_Witness ==
    /\ Len(allocs) = 2
    /\ LiveAllocs = {1, 2}
    /\ last.op = "map_array_mut"
    /\ last.result = "Ok"
    /\ last.value = Some(65536 + PAGE_SIZE)
    /\ AddressOf(1) = Some(65536 + PAGE_SIZE)
    /\ AddressOf(2) = None
    /\ handles[allocs[1].handle.raw_handle].mmaps = 1
    /\ handles[allocs[2].handle.raw_handle].mmaps = 0

\* C19: when GpuAllocated::new fails after the memory handle was created, no
\* handle created by that call remains live, and its file descriptor is
\* closed.
C19_FailedAllocateReleasesHandle ==
    [][(/\ last'.op = "new"
         /\ last'.result = "Err"
         /\ \E user_size \in AllocSizes, outcome \in {"allocate", "map_buffer"} :
               Allocate(user_size, FLUSH_ALIGN, outcome))
        => \A h \in (Len(handles) + 1)..Len(handles') :
               ~Live(handles', h) /\ ~handles'[h].fd]_vars

\* C20: once its GpuAllocated has been dropped, a handle has been freed
\* exactly once.
C20_DroppedHandleFreedOnce ==
    \A id \in 1..Len(allocs) :
        (id \notin LiveAllocs /\ ~allocs[id].gpu_mapped)
            => handles[allocs[id].handle.raw_handle].frees = 1

\* The smallest multiple of PAGE_SIZE that is at least user_size, at a width
\* that holds it.
PageCeil(user_size) ==
    and_not(wrapping_add(Extend(user_size, 65), Extend(U32(PAGE_SIZE - 1), 65)),
            Extend(U32(PAGE_SIZE - 1), 65))

\* max(align, PAGE_SIZE)
MaxAlign(align) ==
    IF BitsLess(align, Usize(PAGE_SIZE)) THEN Usize(PAGE_SIZE) ELSE align

\* C18: GpuAllocated::new(user_size, align) asks the memory manager for the
\* alignment max(align, 0x1000) and for the smallest multiple of 0x1000 that
\* is at least user_size, for every usize user_size and align, and the
\* allocation it returns has that user_size, at most the size asked for.
C18_RequestsPageRoundedSize ==
    last.op = "new" =>
        /\ last.result = "Ok"
        /\ LET asked == last.value[1]
               h == handles[Len(handles)]
               a == allocs[Len(allocs)]
           IN  /\ Extend(h.align, 64) = MaxAlign(asked.align)
               /\ Extend(h.size, 65) = PageCeil(asked.user_size)
               /\ a.user_size = asked.user_size
               /\ ~BitsLess(Extend(a.handle.size, 64), a.user_size)

\* C21: dropping a GpuAllocated unmaps the host view when there is one, with
\* one munmap, and only then unmaps the GPU range, once; a failing step
\* panics, and when the host unmap fails the GPU range is left mapped.
C21_DropUnmapsHostThenGpu ==
    [][\A id \in LiveAllocs :
          (last'.op = "drop" /\ id \notin {in_process'[i] : i \in 1..Len(in_process')})
          => LET a == allocs[id]
                 b == allocs'[id]
                 h == a.handle.raw_handle
                 unmapped == IF a.handle.mapped_address # None THEN 1 ELSE 0
             IN  /\ a.gpu_mapped
                 /\ last'.result \in {"Ok", "panic"}
                 /\ (last'.result = "panic") = (pc' = "panicked")
                 /\ ~b.gpu_mapped => b.handle.mapped_address = None
                 /\ last'.result = "Ok"
                    => /\ b.handle.mapped_address = None
                       /\ ~b.gpu_mapped
                       /\ handles'[h].mmaps = 0
                       /\ handles[h].mmaps - handles'[h].mmaps = unmapped
                 /\ last'.result = "panic"
                    => /\ b.gpu_mapped
                       /\ \/ b = a /\ handles' = handles /\ unmapped = 1
                          \/ /\ b.handle.mapped_address = None
                             /\ handles'[h].mmaps = 0
                             /\ handles[h].mmaps - handles'[h].mmaps = unmapped]_vars

\* C21 witness: a drop panicked at the host unmap, and the allocation is still
\* mapped on both sides.
C21_Witness ==
    /\ last.op = "drop"
    /\ last.result = "panic"
    /\ pc = "panicked"
    /\ \E id \in 1..Len(allocs) :
          /\ id \notin LiveAllocs
          /\ allocs[id].handle.mapped_address # None
          /\ allocs[id].gpu_mapped
          /\ handles[allocs[id].handle.raw_handle].mmaps = 1

\* C22: when GpuAllocated::flush returns Ok the device sees what the host
\* view held, and when GpuAllocated::invalidate returns Ok the host view
\* holds what the device wrote, whether the handle is mapped, was never
\* mapped or was unmapped after the write.
C22_MaintenanceMakesViewsAgree ==
    [][/\ (last'.op = "flush" /\ last'.result = "Ok" /\ CacheFlush(1, TRUE))
            => allocs'[1].mem = allocs[1].host
       /\ (last'.op = "invalidate" /\ last'.result = "Ok" /\ Invalidate(1, TRUE))
            => allocs'[1].host = allocs[1].mem]_vars

\* C23: after a write through the host view of A, A.flush(), a device copy
\* of A to B pushed and flushed, wait_idle(), B.invalidate() and a read of
\* B's host view, the value read is the value written, whenever the hardware
\* ran the batch.
C23_CopyReadsBackWhatWasWritten ==
    last.op = "read"
        => /\ last.value # None
           /\ last.value[1] \in CacheWords
           /\ last.value = Some(allocs[1].host[1])

\* C23 witness: the read of B returned 0xCAFEBABE, copied by the one batch.
C23_Witness ==
    /\ last.op = "read"
    /\ last.value = Some(CAFEBABE)
    /\ allocs[2].mem[1] = CAFEBABE
    /\ Len(submissions) = 1
    /\ submissions[1].done

\* The live mappings of the buffer in the process.
Mappings == handles[allocs[1].handle.raw_handle].mmaps

\* C24: with threads calling map and unmap on one GpuAllocated in any
\* interleaving, the handle is mapped at most once at any time and never
\* unmapped below zero, and whenever no call is inside the handle the
\* recorded address is present exactly when one mapping is live.
C24_MutexKeepsMappingCache ==
    /\ Mappings \in {0, 1}
    /\ threads.holder = None
        => ((AddressOf(1) # None) = (Mappings = 1))
    /\ \A t \in Threads :
          threads.at[t] \in {"map", "mmap", "store", "unmap", "munmap", "clear"}
              => threads.holder = Some(t)

\* C24 witness: a thread has mapped the buffer and not yet recorded the
\* address, while every other thread waits for the mutex in a call of map.
C24_Witness ==
    /\ threads.at[1] = "store"
    /\ Mappings = 1
    /\ AddressOf(1) = None
    /\ \A t \in Threads \ {1} : threads.at[t] = "map_lock"

\* C25: when the kernel fails the call of a wrapper (allocation, mapping,
\* cache maintenance, submission) with the error code e, the error the
\* wrapper returns carries e.
C25_ErrorCarriesKernelCode ==
    (/\ last.op \in IoctlWrappers \cup MmapWrappers
     /\ last.value # None
     /\ last.value[1].ret = -1)
        => /\ last.result = "Err"
           /\ last.value[1].code = last.value[1].errno

\* C26: a failed kernel request is never absorbed: when the fence wait of
\* the ring's teardown fails, the teardown ends in an error result or a
\* panic.
C26_NoFailureAbsorbed ==
    [][(pc = "drop" /\ DropPolled(FALSE))
          => \/ last'.result \in {"Err", "panic"}
             \/ pc' \in {"panicked", "aborted"}]_vars

\* The words of the five bind commands as flush encodes them.
BindWords == FlushWords(setup_channel(<<>>))

\* C27: the five bind commands of initialize_command_stream, in their
\* order, are the first words of the first batch the kernel accepts.
C27_BindsLeadFirstBatch ==
    [][(submissions = <<>> /\ submissions' # <<>>)
          => LET w == BatchWords(allocs', submissions'[1].entries)
             IN  /\ Len(w) >= Len(BindWords)
                 /\ SubSeq(w, 1, Len(BindWords)) = BindWords]_vars

\* C28: CommandStream::push returns Ok, appends the command at the end of
\* the pending list and changes nothing else: the ring and its cursor, the
\* tracked fence, the in-flight list, the buffers and what the kernel holds
\* stay as they were.
C28_PushOnlyAppends ==
    [][(last'.op = "push" /\ command_list' # command_list)
          => /\ last'.result = "Ok"
             /\ Len(command_list') = Len(command_list) + 1
             /\ SubSeq(command_list', 1, Len(command_list)) = command_list
             /\ command_list'[Len(command_list')] \in PushableCommands
             /\ UNCHANGED <<fifo, in_process, allocs, submissions, completed, pc,
                            poll_fd, handles>>]_vars

\* C28 witness: a push onto a pending command while a fence is tracked and a
\* buffer is in flight.
C28_Witness ==
    /\ last.op = "push"
    /\ last.result = "Ok"
    /\ Len(command_list) = 2
    /\ fifo.waiting_fence # None
    /\ in_process # <<>>

\* C29: when GpuBox::new(x) returns, the handle is still mapped, the host
\* view and the memory the device sees at gpu_address() both hold x and no
\* line of it is left in the cache; when the allocation, the mapping or the
\* flush fails, the constructor panics and no box is returned.
C29_GpuBoxNewFlushesValue ==
    [][\A address \in MmapAddresses, outcome \in BoxOutcomes, dropped \in DropOutcomes :
          LET x == last'.value[1]
          IN  (/\ pc = "ready"
               /\ last'.op = "GpuBox::new"
               /\ GpuBoxNew(x, address, outcome, dropped))
              => IF outcome = "ok"
                 THEN LET box == allocs'[in_process'[Len(in_process')]]
                      IN  /\ last'.result = "Ok"
                          /\ box.handle.mapped_address = Some(address)
                          /\ box.gpu_mapped
                          /\ box.mem = <<>> \o x
                          /\ box.host = <<>> \o x
                          /\ ~box.cached
                 ELSE /\ last'.result = "panic"
                      /\ pc' \in {"panicked", "aborted"}
                      /\ in_process' = in_process]_vars

\* C29 witness: a second box returned with 0xCAFEBABE in both words of the
\* memory the device sees.
C29_Witness ==
    /\ last.op = "GpuBox::new"
    /\ last.result = "Ok"
    /\ Len(in_process) = 2
    /\ allocs[in_process[2]].mem = <<CAFEBABE, CAFEBABE>>
    /\ allocs[in_process[2]].handle.mapped_address # None

\* C30: CommandStream::wait_idle leaves the pending list, the in-flight list
\* and the buffers as they were; the in-flight list only changes by a flush,
\* which appends one buffer to it (every flush the kernel accepts does), or
\* by the teardown of the stream, which empties it, and no in-flight buffer
\* is touched before the teardown.
C30_WaitIdleKeepsInFlightBuffers ==
    [][/\ (pc' = "wait_idle" \/ pc = "wait_idle"
              \/ (last'.op = "wait_idle" /\ last' # last))
            => UNCHANGED <<command_list, in_process, allocs>>
       /\ in_process' # in_process
            => \/ /\ last'.op = "flush"
                  /\ in_process' = Append(in_process, Len(allocs) + 1)
               \/ /\ last'.op = "drop"
                  /\ in_process' = <<>>
       /\ (last'.op = "flush" /\ last'.result = "Ok" /\ last' # last)
            => Len(in_process') = Len(in_process) + 1
       /\ (\E i \in 1..Len(in_process) :
               allocs'[in_process[i]] # allocs[in_process[i]])
            => last'.op = "drop"]_vars

\* C30 witness: wait_idle returned after two flushes whose batches the
\* hardware finished: both buffers are still in flight, mapped for the GPU.
C30_Witness ==
    /\ last.op = "wait_idle"
    /\ last.result = "Ok"
    /\ pc = "ready"
    /\ Len(in_process) = 2
    /\ \A i \in 1..2 : allocs[in_process[i]].gpu_mapped
    /\ Len(submissions) = 2
    /\ \A k \in 1..2 : submissions[k].done

\* C31: the control handle is set before the memory manager and the memory
\* manager before the address space, the address space was allocated
\* through a control handle set before it, and an accessor returns its
\* pointer when it is set and panics when it is null.
C31_HandlesInitializedInOrder ==
    /\ instances.NVMAP_INSTANCE # None => instances.NVHOST_CTRL_INSTANCE # None
    /\ instances.NVAS_INSTANCE # None
          => /\ instances.NVMAP_INSTANCE # None
             /\ instances.NVHOST_CTRL_INSTANCE # None
             /\ instances.NVAS_INSTANCE[1].ctrl \in 1..instances.NVHOST_CTRL_INSTANCE[1]
    /\ last.op \in Accessors
          => IF last.result = "Ok"
             THEN last.value # None /\ last.value = Instance(instances, last.op)
             ELSE /\ last.result = "panic"
                  /\ pc = "panicked"
                  /\ Instance(instances, last.op) = None

\* C31 witness: get_as returned the address space allocated through the
\* control handle of the same call of initialize().
C31_Witness ==
    /\ last.op = "get_as"
    /\ last.result = "Ok"
    /\ last.value = Some([id |-> 1, ctrl |-> 1])
    /\ instances.NVMAP_INSTANCE = Some(1)

\* An in-flight buffer is unmapped, or leaves the in-flight list, in the step.
InFlightReleased ==
    \/ in_process' # in_process /\ Len(in_process') <= Len(in_process)
    \/ \E i \in 1..Len(in_process) :
          LET id == in_process[i]
          IN  \/ allocs[id].gpu_mapped /\ ~allocs'[id].gpu_mapped
              \/ allocs'[id].handle.mapped_address # allocs[id].handle.mapped_address

\* C32: at the teardown of a CommandStream the ring is dropped first: while
\* its wait for the tracked fence is pending every in-flight buffer is
\* still in the list and mapped for the GPU, and an in-flight buffer is only
\* released by the teardown, in a step that finds the slot of the ring empty
\* and leaves no wait pending; when that wait returned without an error the
\* fence it waited for is signalled.
C32_RingDroppedBeforeBuffers ==
    /\ [](pc \in {"drop", "drop_unwind"}
            => /\ poll_fd # None
               /\ \A i \in 1..Len(in_process) : allocs[in_process[i]].gpu_mapped)
    /\ [][InFlightReleased
            => /\ last'.op = "drop"
               /\ fifo.waiting_fence = None
               /\ poll_fd' = None
               /\ poll_fd # None => pc \in {"drop", "drop_unwind"}
               /\ (poll_fd # None /\ last'.result = "Ok")
                     => Signalled(submissions, poll_fd[1])]_vars

\* C32 witness: the teardown waits for a fence the hardware has not
\* signalled, with two buffers in flight and mapped.
C32_Witness ==
    /\ pc = "drop"
    /\ poll_fd # None
    /\ ~Signalled(submissions, poll_fd[1])
    /\ Len(in_process) = 2
    /\ \A i \in 1..2 : allocs[in_process[i]].gpu_mapped

\* C33: when the kernel accepts a batch of CommandStream::flush, the last
\* descriptor of the batch is the one of the buffer made by that flush, it
\* counts the words of the drained commands, and the memory the device sees
\* at every descriptor of the batch already holds the words copied into the
\* buffer, none of them left in the CPU cache.
C33_FlushedBeforeSubmitted ==
    [][(last'.op = "flush" /\ Len(submissions') = Len(submissions) + 1)
          => LET entries == submissions'[Len(submissions')].entries
                 e == entries[Len(entries)]
                 made == allocs'[Len(allocs')]
             IN  /\ Len(allocs') = Len(allocs) + 1
                 /\ EntryAddress(e) = made.gpu_address
                 /\ EntryCount(e) = Len(FlushWords(command_list))
                 /\ made.mem = FlushWords(command_list)
                 /\ \A i \in 1..Len(entries) :
                        \E id \in 1..Len(allocs') :
                            /\ allocs'[id].gpu_address = EntryAddress(entries[i])
                            /\ allocs'[id].gpu_mapped
                            /\ ~allocs'[id].cached
                            /\ allocs'[id].mem = allocs'[id].host
                            /\ Len(allocs'[id].mem) = EntryCount(entries[i])]_vars

\* C33 witness: the kernel accepted a batch of two descriptors, the first
\* from a flush it had refused, and the memory behind the second holds the
\* words of a command.
C33_Witness ==
    /\ last.op = "flush"
    /\ last.result = "Ok"
    /\ Len(submissions) = 1
    /\ Len(submissions[1].entries) = 2
    /\ Len(allocs) = 2
    /\ allocs[2].mem # <<>>
    /\ EntryAddress(submissions[1].entries[2]) = allocs[2].gpu_address

\* C34: wait_idle is the only call that waits for the hardware: append and
\* submit return in their own step, finishing no batch; a wait_idle that
\* blocks comes back once the hardware signals the fence, and it does not
\* come back while the fence it waits for is not signalled.
C34_OnlyWaitIdleWaits ==
    /\ [][(last'.op \in {"append", "submit"} /\ last' # last)
            => (completed' = completed /\ pc' # "wait_idle")]_vars
    /\ (pc = "wait_idle") ~> (pc # "wait_idle")
    /\ [][(pc = "wait_idle" /\ pc' = "ready")
            => Signalled(submissions, poll_fd[1])]_vars

\* The number of batches the kernel had accepted when the caller of the
\* ring appended the descriptor e.
AppendedAfter(e) == ((EntryAddress(e) \div PAGE_SIZE) - 1) \div GPFIFO_QUEUE_SIZE

\* C35: a submit the kernel accepts hands it the slots 0..position-1 of the
\* ring in order, which are the descriptors appended since the batch
\* accepted before it, in the order of their append, and resets the cursor;
\* a refused submit leaves the slots and the cursor as they were, so its
\* descriptors go with the next submit.
C35_SubmitHandsAppendedEntries ==
    [][/\ (last'.op = "submit" /\ last'.result = "Ok"
             /\ Len(submissions') = Len(submissions) + 1)
            => LET entries == submissions'[Len(submissions')].entries
               IN  /\ Len(entries) = fifo.position
                   /\ fifo'.position = 0
                   /\ \A i \in 1..Len(entries) :
                          /\ entries[i] = fifo.queue[i - 1]
                          /\ EntryCount(entries[i]) = i
                          /\ AppendedAfter(entries[i]) = Len(submissions)
       /\ (last'.op = "submit" /\ last'.result = "Err" /\ completed' = completed)
            => /\ fifo'.position = fifo.position
               /\ fifo'.queue = fifo.queue
               /\ submissions' = submissions]_vars

\* C35 witness: the second batch holds the one descriptor appended after
\* the first, handed over by the submit that followed a refused one, while
\* slot 1 of the ring still holds a descriptor of the first batch.
C35_Witness ==
    /\ last.op = "submit"
    /\ last.result = "Ok"
    /\ unwaited = <<1, 0, 2>>
    /\ Len(submissions[2].entries) = 1
    /\ fifo.queue[1] # ZeroEntry

\* C36: after CommandStream::flush the pending list is empty, whether the
\* flush returned Ok, returned an error or panicked, and the buffer a flush
\* fills holds the words of the commands pending at its call only.
C36_FlushConsumesPending ==
    /\ [](last.op = "flush" => command_list = <<>>)
    /\ [][(last'.op = "flush" /\ Len(allocs') = Len(allocs) + 1)
            => allocs'[Len(allocs')].host = FlushWords(command_list)]_vars

\* C36 witness: a flush of pending commands returned the error of the
\* submit, and nothing is pending.
C36_Witness ==
    /\ last.op = "flush"
    /\ last.result = "Err"
    /\ command_list = <<>>
    /\ submissions = <<>>
    /\ Len(allocs) = 1
    /\ allocs[1].host # <<>>

\* C37: GpuAllocated::flush and GpuAllocated::invalidate on a handle with
\* no host mapping return Ok and make no cache request; on a mapped handle
\* they make exactly one request (four fields), at the mapped address
\* (offset 0), as long as the page-rounded size of the handle, asking for
\* write-back and invalidate (2) in flush and for invalidate (1) in
\* invalidate.
C37_OneRequestForWholeHandle ==
    [][\A id \in 1..MaxHandles, ok \in BOOLEAN, op \in {"flush", "invalidate"} :
          (last'.op = op /\ id <= Len(allocs) /\ Maintenance(op, id, ok))
              => IF AddressOf(id) = None
                 THEN /\ last'.result = "Ok"
                      /\ last'.value = <<>>
                      /\ allocs' = allocs
                 ELSE /\ Len(last'.value) = 4
                      /\ last'.value[1] = AddressOf(id)[1]
                      /\ last'.value[2] = allocs[id].handle.raw_handle
                      /\ last'.value[3] >= allocs[id].user_size
                      /\ last'.value[3] < allocs[id].user_size + PAGE_SIZE
                      /\ last'.value[3] % PAGE_SIZE = 0
                      /\ last'.value[3] = handles[allocs[id].handle.raw_handle].size
                      /\ last'.value[4] = IF op = "flush" THEN 2 ELSE 1]_vars

\* C37 witness: a flush of the second, mapped allocation made one
\* write-back-and-invalidate request for its page.
C37_Witness ==
    /\ last.op = "flush"
    /\ last.result = "Ok"
    /\ Len(allocs) = 2
    /\ AddressOf(2) # None
    /\ last.value = <<AddressOf(2)[1], 2, PAGE_SIZE, 2>>

\* C38: an append stores gpu_address | (command_count << 42).  For a
\* gpu_address below 2^42 and a command_count below 2^22 the low 42 bits of
\* the entry are the address and the bits from 42 up are the count.  For an
\* address of 2^42 or more its high bits land in the count field (overlap)
\* and the address field is no longer the address; for a count of 2^22 or
\* more its high bits are lost and the count field is no longer the count.
C38_EntryPacksPair ==
    [][EntryAppend /\ ~AppendPanics(fifo) =>
          LET gpu_address == last.value[1]
              command_count == last.value[2]
              e == fifo'.queue[fifo.position]
          IN  /\ (Below(gpu_address, 42) /\ Below(command_count, 22))
                     => /\ AddressField(e) = gpu_address
                        /\ CountField(e) = command_count
              /\ ~Below(gpu_address, 42)
                     => /\ AddressField(e) # gpu_address
                        /\ \E i \in 42..63 : e[i] = 1 /\ gpu_address[i] = 1
              /\ ~Below(command_count, 22)
                     => /\ CountField(e) # command_count
                        /\ \E i \in 22..63 :
                               command_count[i] = 1 /\ CountField(e)[i] = 0]_vars

\* C38 witness: the largest pair inside the ranges was appended and both
\* fields give it back.
C38_Witness ==
    /\ last.op = "append"
    /\ last.value = <<U64Bits({0, 12, 41}), U64Bits({0, 21})>>
    /\ fifo.position = 1
    /\ AddressField(fifo.queue[0]) = U64Bits({0, 12, 41})
    /\ CountField(fifo.queue[0]) = U64Bits({0, 21})
====
